---- MODULE Spec2Model ----
(***************************************************************************)
(* Model of the DCF valuation engine of src/DCF.py: estimate_fcf_series,   *)
(* dcf_intrinsic_value and intrinsic_value_per_share.                       *)
(*                                                                         *)
(* One behaviour is one call of one of the three functions.  The inputs    *)
(* (statement bundle, years, assumptions) are chosen in the initial state; *)
(* each action is one block of the called function.                        *)
(*                                                                         *)
(* Floating-point numbers are modelled as exact rationals extended with    *)
(* inf, -inf and nan (a numpy division by zero yields these, it does not   *)
(* raise); rounding is not modelled.                                        *)
(***************************************************************************)
EXTENDS Integers, Sequences, FiniteSets, TLC

VARIABLES entry, financials, years, args, pc, fcf_row, fcff, fcff_series,
          path, fcff_approx, last_fcf, ev, net_debt, equity_value, shares,
          value_per_share, result, kwargs, now_year, first, ret,
          req, state, payload, next_state, lists, fetched, bundle,
          mongo_config, uri, file, download, calls, out, user_input

\* the state of the data tool, the fetch scripts, the graph node and the
\* chat loop (src/src/agents, src/execution_scripts), and of a pair of
\* valuation requests
agentVars == <<req, state, payload, next_state, lists, fetched, bundle,
               mongo_config, uri, file, download, calls, out, user_input>>

\* the state of one call into DCF.py, without entry, pc and result
dcfVars == <<financials, years, args, fcf_row, fcff, fcff_series, path,
             fcff_approx, last_fcf, ev, net_debt, equity_value, shares,
             value_per_share, kwargs, now_year, first, ret>>

vars == <<entry, financials, years, args, pc, fcf_row, fcff, fcff_series,
          path, fcff_approx, last_fcf, ev, net_debt, equity_value, shares,
          value_per_share, result, kwargs, now_year, first, ret, agentVars>>

(***************************************************************************)
(* Bounds of the model.                                                    *)
(***************************************************************************)
NumPeriods == 4      \* reporting periods (columns) of a statement table
MaxYears == 3        \* largest `years` argument of estimate_fcf_series
MaxGrowthYears == 2  \* largest growth_years of a direct dcf_intrinsic_value call
MaxRate == 2         \* rates are 0/RateDen .. MaxRate/RateDen
RateDen == 4

(***************************************************************************)
(* Program constants.                                                      *)
(***************************************************************************)
DefaultYears == 4          \* estimate_fcf_series(financials, years=4)
PerShareGrowthYears == 5   \* growth_years=5 in intrinsic_value_per_share

(***************************************************************************)
(* Strings.  TLC cannot look inside a string, so every label the model     *)
(* uses is listed with its characters.                                     *)
(***************************************************************************)
Chars(s) ==
  CASE s = "Free Cash Flow" -> <<"F", "r", "e", "e", " ", "C", "a", "s", "h", " ", "F", "l", "o", "w">>
    [] s = "Free cash flow" -> <<"F", "r", "e", "e", " ", "c", "a", "s", "h", " ", "f", "l", "o", "w">>
    [] s = "FreeCashFlow" -> <<"F", "r", "e", "e", "C", "a", "s", "h", "F", "l", "o", "w">>
    [] s = "free_cash_flow" -> <<"f", "r", "e", "e", "_", "c", "a", "s", "h", "_", "f", "l", "o", "w">>
    [] s = "FREE CASH FLOW" -> <<"F", "R", "E", "E", " ", "C", "A", "S", "H", " ", "F", "L", "O", "W">>
    [] s = "Depreciation of PPE" -> <<"D", "e", "p", "r", "e", "c", "i", "a", "t", "i", "o", "n", " ", "o", "f", " ", "P", "P", "E">>
    [] s = "Capital Expenditures" -> <<"C", "a", "p", "i", "t", "a", "l", " ", "E", "x", "p", "e", "n", "d", "i", "t", "u", "r", "e", "s">>
    [] s = "Issuance Of Capital Stock" -> <<"I", "s", "s", "u", "a", "n", "c", "e", " ", "O", "f", " ", "C", "a", "p", "i", "t", "a", "l", " ", "S", "t", "o", "c", "k">>
    [] s = "Ebit" -> <<"E", "b", "i", "t">>
    [] s = "EBIT" -> <<"E", "B", "I", "T">>
    [] s = "Depreciation" -> <<"D", "e", "p", "r", "e", "c", "i", "a", "t", "i", "o", "n">>
    [] s = "Capital" -> <<"C", "a", "p", "i", "t", "a", "l">>
    [] s = "Expend" -> <<"E", "x", "p", "e", "n", "d">>
    [] s = "free cash flow" -> <<"f", "r", "e", "e", " ", "c", "a", "s", "h", " ", "f", "l", "o", "w">>

\* Python `needle in hay` on two strings: needle is a contiguous part of hay.
StrContains(hay, needle) ==
  LET h == Chars(hay)
      n == Chars(needle)
  IN  \E i \in 0..(Len(h) - Len(n)) : SubSeq(h, i + 1, i + Len(n)) = n

\* Python `x in index` on a sequence of labels: equality with an element.
InIndex(x, index) == \E i \in 1..Len(index) : index[i] = x

(***************************************************************************)
(* Floating-point values: [k |-> "fin", n, d] is the rational n/d in       *)
(* lowest terms with d > 0; "inf", "ninf" and "nan" are the IEEE specials. *)
(***************************************************************************)
Abs(x) == IF x < 0 THEN -x ELSE x

RECURSIVE Gcd(_, _)
Gcd(a, b) == IF b = 0 THEN a ELSE Gcd(b, a % b)

Fin(n, d) ==
  LET g == Gcd(Abs(n), Abs(d))
      s == IF d < 0 THEN -1 ELSE 1
  IN  [k |-> "fin", n |-> (s * n) \div g, d |-> (s * d) \div g]

FInf == [k |-> "inf", n |-> 0, d |-> 1]
FNegInf == [k |-> "ninf", n |-> 0, d |-> 1]
FNan == [k |-> "nan", n |-> 0, d |-> 1]

\* sign of a non-nan value: -1, 0 or 1
FSign(a) ==
  CASE a.k = "inf" -> 1
    [] a.k = "ninf" -> -1
    [] OTHER -> IF a.n > 0 THEN 1 ELSE IF a.n < 0 THEN -1 ELSE 0

FSigned(s) == IF s > 0 THEN FInf ELSE FNegInf

FNeg(a) ==
  CASE a.k = "fin" -> Fin(-a.n, a.d)
    [] a.k = "inf" -> FNegInf
    [] a.k = "ninf" -> FInf
    [] OTHER -> FNan

FAdd(a, b) ==
  CASE a.k = "nan" \/ b.k = "nan" -> FNan
    [] a.k = "fin" /\ b.k = "fin" ->
         LET g == Gcd(a.d, b.d)
         IN  Fin(a.n * (b.d \div g) + b.n * (a.d \div g), a.d * (b.d \div g))
    [] a.k = "fin" -> b
    [] b.k = "fin" -> a
    [] OTHER -> IF a.k = b.k THEN a ELSE FNan

FSub(a, b) == FAdd(a, FNeg(b))

FMul(a, b) ==
  CASE a.k = "nan" \/ b.k = "nan" -> FNan
    [] a.k = "fin" /\ b.k = "fin" ->
         LET g1 == Gcd(Abs(a.n), b.d)
             g2 == Gcd(Abs(b.n), a.d)
         IN  Fin((a.n \div g1) * (b.n \div g2), (a.d \div g2) * (b.d \div g1))
    [] OTHER -> IF FSign(a) * FSign(b) = 0 THEN FNan
                ELSE FSigned(FSign(a) * FSign(b))

\* numpy float64 division: a zero divisor gives inf, -inf or nan, no exception
FDiv(a, b) ==
  CASE a.k = "nan" \/ b.k = "nan" -> FNan
    [] b.k = "fin" /\ b.n = 0 ->
         IF FSign(a) = 0 THEN FNan ELSE FSigned(FSign(a))
    [] a.k = "fin" /\ b.k = "fin" -> FMul(a, Fin(b.d, b.n))
    [] a.k = "fin" -> Fin(0, 1)
    [] b.k = "fin" -> FSigned(FSign(a) * FSign(b))
    [] OTHER -> FNan

RECURSIVE FPow(_, _)
FPow(a, n) == IF n <= 0 THEN Fin(1, 1) ELSE FMul(a, FPow(a, n - 1))

FInt(i) == Fin(i, 1)
FOne == Fin(1, 1)
IsFinite(a) == a.k = "fin"

(***************************************************************************)
(* Statement tables.  A cell is a number, a missing value (NaN/None) or a  *)
(* present but non-numeric placeholder string.                             *)
(***************************************************************************)
Num(v) == [kind |-> "num", v |-> v]
NaN == [kind |-> "nan", v |-> 0]
Placeholder == [kind |-> "str", v |-> 0]

\* yfinance gives the most recent column first; a larger period is more recent
Columns == [j \in 1..NumPeriods |-> NumPeriods + 1 - j]

\* DataFrame.loc[label]: the row as a series of (period, value), column order
Loc(table, label) ==
  [j \in 1..Len(table.columns) |->
     [period |-> table.columns[j], value |-> table.data[label][j]]]

\* Series.dropna(): the entries whose value is not missing, order kept
NotMissing(e) == e.value.kind # "nan"
DropNa(s) == SelectSeq(s, NotMissing)

\* Series.iloc[:n], a Python slice
ILocHead(s, n) ==
  IF n >= 0 THEN SubSeq(s, 1, IF n < Len(s) THEN n ELSE Len(s))
  ELSE SubSeq(s, 1, IF Len(s) + n > 0 THEN Len(s) + n ELSE 0)

\* Series.astype(float): raises ValueError on a non-numeric string
AsTypeFloatRaises(s) == \E i \in 1..Len(s) : s[i].value.kind = "str"
AsTypeFloat(s) ==
  [i \in 1..Len(s) |-> [period |-> s[i].period, value |-> FInt(s[i].value.v)]]

\* Series.sort_index(): ascending by period (insertion sort)
RECURSIVE InsertByPeriod(_, _)
InsertByPeriod(sorted, e) ==
  IF sorted = <<>> THEN <<e>>
  ELSE IF e.period < Head(sorted).period THEN <<e>> \o sorted
  ELSE <<Head(sorted)>> \o InsertByPeriod(Tail(sorted), e)

RECURSIVE SortIndex(_)
SortIndex(s) ==
  IF s = <<>> THEN <<>>
  ELSE InsertByPeriod(SortIndex(SubSeq(s, 1, Len(s) - 1)), s[Len(s)])

(***************************************************************************)
(* Python truthiness and the info map.  An info entry is absent, None or a *)
(* number.                                                                 *)
(***************************************************************************)
Absent == [kind |-> "absent", v |-> 0]
None == [kind |-> "none", v |-> 0]

\* dict.get(key, default)
InfoGet(info, key, default) ==
  IF info[key].kind = "absent" THEN default ELSE info[key]

Truthy(x) == x.kind = "num" /\ x.v # 0

\* Python `a or b`
PyOr(a, b) == IF Truthy(a) THEN a ELSE b

(***************************************************************************)
(* str.format / f-string format specifications (the format-spec            *)
(* mini-language for numbers):                                             *)
(*   [[fill]align][sign][z][#][0][width][,][_][.precision][type]           *)
(***************************************************************************)
IsAlign(c) == c \in {"<", ">", "=", "^"}
IsDigit(c) == c \in {"0", "1", "2", "3", "4", "5", "6", "7", "8", "9"}
FloatTypes == {"e", "E", "f", "F", "g", "G", "n", "%"}

RECURSIVE SkipDigits(_, _)
SkipDigits(spec, p) ==
  IF p <= Len(spec) /\ IsDigit(spec[p]) THEN SkipDigits(spec, p + 1) ELSE p

FormatSpecValid(spec) ==
  LET n == Len(spec)
      At(p) == IF p <= n THEN spec[p] ELSE ""
      p1 == IF IsAlign(At(2)) THEN 3 ELSE IF IsAlign(At(1)) THEN 2 ELSE 1
      p2 == IF At(p1) \in {"+", "-", " "} THEN p1 + 1 ELSE p1
      p3 == IF At(p2) = "z" THEN p2 + 1 ELSE p2
      p4 == IF At(p3) = "#" THEN p3 + 1 ELSE p3
      p5 == IF At(p4) = "0" THEN p4 + 1 ELSE p4
      p6 == SkipDigits(spec, p5)
      p7 == IF At(p6) = "," THEN p6 + 1 ELSE p6
      p8 == IF At(p7) = "_" THEN p7 + 1 ELSE p7
      hasPrec == At(p8) = "."
      p9 == IF hasPrec THEN SkipDigits(spec, p8 + 1) ELSE p8
  IN  /\ ~(At(p6) = "," /\ At(p7) = "_")
      /\ hasPrec => p9 > p8 + 1
      /\ n - p9 + 1 <= 1
      /\ n - p9 + 1 = 1 => spec[p9] \in FloatTypes

\* the format specifications of the two progress messages of the fallback
DiagnosticFormatSpec == <<",", " ", ".", "0", "f">>
ApproxFormatSpec == <<",", ".", "0", "f">>

(***************************************************************************)
(* estimate_fcf_series                                                     *)
(***************************************************************************)
FcfRowNames == <<"Free Cash Flow", "Free cash flow", "FreeCashFlow">>

\* the search without its `break`: the last of the three names wins
FindFcfRowNoBreak(cf) ==
  IF \E i \in 1..Len(FcfRowNames) : InIndex(FcfRowNames[i], cf.index)
  THEN FcfRowNames[CHOOSE i \in 1..Len(FcfRowNames) :
         /\ InIndex(FcfRowNames[i], cf.index)
         /\ \A j \in (i + 1)..Len(FcfRowNames) : ~InIndex(FcfRowNames[j], cf.index)]
  ELSE "None"

\* the first of the three names that is a label of the table, else "None"
FindFcfRow(cf) ==
  IF \E i \in 1..Len(FcfRowNames) : InIndex(FcfRowNames[i], cf.index)
  THEN FcfRowNames[CHOOSE i \in 1..Len(FcfRowNames) :
         /\ InIndex(FcfRowNames[i], cf.index)
         /\ \A j \in 1..(i - 1) : ~InIndex(FcfRowNames[j], cf.index)]
  ELSE "None"

\* the selection with its two steps exchanged: .iloc[:years].dropna()
DirectSelectionHeadFirst(cf, row, yrs) == DropNa(ILocHead(Loc(cf, row), yrs))

\* cf.loc[fcf_row].dropna().iloc[:years], before .astype(float)
DirectSelection(cf, row, yrs) == ILocHead(DropNa(Loc(cf, row)), yrs)

IsDepreciationLabel(r) == StrContains(r, "Depreciation")
IsCapexLabel(r) == StrContains(r, "Capital") /\ StrContains(r, "Expend")

\* next((r for r in cf.index if ...), None)
FirstDepreciationRow(cf) ==
  IF \E i \in 1..Len(cf.index) : IsDepreciationLabel(cf.index[i])
  THEN cf.index[CHOOSE i \in 1..Len(cf.index) :
         /\ IsDepreciationLabel(cf.index[i])
         /\ \A j \in 1..(i - 1) : ~IsDepreciationLabel(cf.index[j])]
  ELSE "None"

FirstCapexRow(cf) ==
  IF \E i \in 1..Len(cf.index) : IsCapexLabel(cf.index[i])
  THEN cf.index[CHOOSE i \in 1..Len(cf.index) :
         /\ IsCapexLabel(cf.index[i])
         /\ \A j \in 1..(i - 1) : ~IsCapexLabel(cf.index[j])]
  ELSE "None"

\* a cell used in arithmetic
CellFloat(c) == IF c.kind = "num" THEN FInt(c.v) ELSE FNan

\* table.loc[label].iloc[0] if the label was found, else 0
MostRecentOrZero(table, label) ==
  IF label = "None" THEN Num(0) ELSE table.data[label][1]

EbitCell(income) ==
  MostRecentOrZero(income, IF InIndex("Ebit", income.index) THEN "Ebit" ELSE "None")
DeprCell(cf) == MostRecentOrZero(cf, FirstDepreciationRow(cf))
CapexCell(cf) == MostRecentOrZero(cf, FirstCapexRow(cf))

TaxFactor == Fin(7, 10)

\* ebit * 0.7 + depr - capex
FcffApprox(ebit, depr, capex) ==
  FSub(FAdd(FMul(CellFloat(ebit), TaxFactor), CellFloat(depr)), CellFloat(capex))

\* format(value, spec) of one replacement field: an unbound name raises
\* NameError, a Series takes no format specification (TypeError), a number
\* raises ValueError on a specification that does not parse
FormatRaises(kind, spec) ==
  CASE kind = "unbound" -> TRUE
    [] kind = "series" -> spec # <<>>
    [] OTHER -> ~FormatSpecValid(spec)

\* fcff is assigned only when a free-cash-flow row was found, and is a Series
FcffKind(row) == IF row = "None" THEN "unbound" ELSE "series"

\* print(f"  EBIT: {ebit:, .0f} , D&A: {depr:, .0f} , CapEx: {capex:, .0f} => FCFF: {fcff:, .0f}")
DiagnosticPrintRaises(row) ==
  \/ FormatRaises("number", DiagnosticFormatSpec)
  \/ FormatRaises(FcffKind(row), DiagnosticFormatSpec)

\* print(f"   Approx FCF: {fcff_approx:,.0f}")
ApproxPrintRaises == FormatRaises("number", ApproxFormatSpec)

\* the derived estimate without its two prints
FallbackRaisesOnCellsOnly(fin, row) ==
  \/ EbitCell(fin.income).kind = "str"
  \/ DeprCell(fin.cashflow).kind = "str"
  \/ CapexCell(fin.cashflow).kind = "str"
\* what makes the try block of the derived estimate raise
FallbackRaises(fin, row) ==
  \/ EbitCell(fin.income).kind = "str"
  \/ DeprCell(fin.cashflow).kind = "str"
  \/ CapexCell(fin.cashflow).kind = "str"
  \/ DiagnosticPrintRaises(row)
  \/ ApproxPrintRaises

(***************************************************************************)
(* dcf_intrinsic_value                                                     *)
(***************************************************************************)
\* np.arange(1, growth_years + 1)
YearsRange(growth_years) == 1..growth_years

\* the growth factor with the sign of the rate slipped
ProjectedFcfShrinking(last, growth_rate, i) ==
  FMul(last, FPow(FSub(FOne, growth_rate), i))
\* last_fcf * (1 + growth_rate) ** years
ProjectedFcf(last, growth_rate, i) == FMul(last, FPow(FAdd(FOne, growth_rate), i))
DiscountFactor(wacc, i) == FDiv(FOne, FPow(FAdd(FOne, wacc), i))

RECURSIVE PvFcfs(_, _, _, _)
PvFcfs(last, growth_rate, wacc, n) ==
  IF n < 1 THEN FInt(0)
  ELSE FAdd(PvFcfs(last, growth_rate, wacc, n - 1),
            FMul(ProjectedFcf(last, growth_rate, n), DiscountFactor(wacc, n)))

\* fcfs[-1] on an empty array raises IndexError
DcfRaises(a) == YearsRange(a.growth_years) = {}

\* the denominator taken as terminal_growth - wacc
TerminalValueSignSlip(last, a) ==
  FDiv(FMul(ProjectedFcf(last, a.growth_rate, a.growth_years),
            FAdd(FOne, a.terminal_growth)),
       FSub(a.terminal_growth, a.wacc))
\* fcfs[-1] * (1 + terminal_growth) / (wacc - terminal_growth)
TerminalValue(last, a) ==
  FDiv(FMul(ProjectedFcf(last, a.growth_rate, a.growth_years),
            FAdd(FOne, a.terminal_growth)),
       FSub(a.wacc, a.terminal_growth))

\* the terminal value added without discounting it
EnterpriseValueUndiscounted(last, a) ==
  FAdd(PvFcfs(last, a.growth_rate, a.wacc, a.growth_years), TerminalValue(last, a))

\* pv_fcfs.sum() + tv / (1 + wacc)**growth_years
EnterpriseValue(last, a) ==
  FAdd(PvFcfs(last, a.growth_rate, a.wacc, a.growth_years),
       FDiv(TerminalValue(last, a), FPow(FAdd(FOne, a.wacc), a.growth_years)))

(***************************************************************************)
(* intrinsic_value_per_share                                               *)
(***************************************************************************)
\* growth_rate: float = 0.08, wacc: float = 0.11, terminal_growth: float = 0.03
DefaultGrowthRate == Fin(8, 100)
DefaultWacc == Fin(11, 100)
DefaultTerminalGrowth == Fin(3, 100)

\* a parameter with a default: the keyword argument if given, else the default
Parameter(given, default) == IF given.k = "omitted" THEN default ELSE given

\* intrinsic_value_per_share has no growth_years parameter: a call that gives
\* one raises TypeError (unexpected keyword argument)
UnexpectedKeyword(kw) == kw.growth_years.kind # "absent"

\* the arguments handed to dcf_intrinsic_value with wacc and terminal_growth
\* exchanged
DcfArgumentsExchanged(kw) ==
  [growth_years |-> PerShareGrowthYears,
   growth_rate |-> Parameter(kw.growth_rate, DefaultGrowthRate),
   terminal_growth |-> Parameter(kw.wacc, DefaultWacc),
   wacc |-> Parameter(kw.terminal_growth, DefaultTerminalGrowth)]

\* dcf_intrinsic_value(last_fcf, growth_years=5, growth_rate=growth_rate,
\*                     wacc=wacc, terminal_growth=terminal_growth)
DcfArguments(kw) ==
  [growth_years |-> PerShareGrowthYears,
   growth_rate |-> Parameter(kw.growth_rate, DefaultGrowthRate),
   terminal_growth |-> Parameter(kw.terminal_growth, DefaultTerminalGrowth),
   wacc |-> Parameter(kw.wacc, DefaultWacc)]

InfoFloat(x) == FInt(x.v)

\* net debt with debt and cash exchanged
NetDebtExchanged(info) ==
  FSub(InfoFloat(PyOr(InfoGet(info, "totalCash", Num(0)), Num(0))),
       InfoFloat(PyOr(InfoGet(info, "totalDebt", Num(0)), Num(0))))

NetDebt(info) ==
  FSub(InfoFloat(PyOr(InfoGet(info, "totalDebt", Num(0)), Num(0))),
       InfoFloat(PyOr(InfoGet(info, "totalCash", Num(0)), Num(0))))

\* the share count without its floatShares alternative
SelectSharesOutstandingOnly(info) == InfoGet(info, "sharesOutstanding", None)

SelectShares(info) ==
  PyOr(InfoGet(info, "sharesOutstanding", None), InfoGet(info, "floatShares", None))

(***************************************************************************)
(* Inputs.                                                                 *)
(***************************************************************************)
FcfLabels == {"Free Cash Flow", "Free cash flow", "FreeCashFlow",
              "free_cash_flow", "FREE CASH FLOW"}

\* the value a row reports for column j: 1000 for the most recent, then 900, ...
CellChoices(j) == {Num(1000 - 100 * (j - 1)), NaN, Placeholder}
FcfRows == {r \in [1..NumPeriods -> UNION {CellChoices(j) : j \in 1..NumPeriods}] :
              \A j \in 1..NumPeriods : r[j] \in CellChoices(j)}
UniformRows == {r \in FcfRows : \A j \in 1..NumPeriods : r[j].kind = r[1].kind}
FullRow == [j \in 1..NumPeriods |-> Num(1000 - 100 * (j - 1))]

\* a row of numbers whose most recent value is v
NumberRow(v) == [j \in 1..NumPeriods |-> Num(v - (j - 1))]

Table(index, data) == [index |-> index, data |-> data, columns |-> Columns]

\* the inputs of the derived estimate: the rows of the cash-flow table that
\* are not free-cash-flow rows, and the label of the income table's EBIT row
FallbackInputs ==
  {<<<<>>, "EBIT">>,
   <<<<>>, "Ebit">>,
   <<<<"Depreciation of PPE">>, "EBIT">>,
   <<<<"Issuance Of Capital Stock">>, "EBIT">>,
   <<<<"Issuance Of Capital Stock", "Capital Expenditures">>, "EBIT">>,
   <<<<"Depreciation of PPE", "Issuance Of Capital Stock", "Capital Expenditures">>,
     "Ebit">>}
OtherRow(label) ==
  CASE label = "Depreciation of PPE" -> NumberRow(50)
    [] label = "Capital Expenditures" -> NumberRow(-80)
    [] OTHER -> NumberRow(7)

\* the free-cash-flow rows of a cash-flow table: none, one label with any
\* row, or two labels (in either index order) with uniform rows
FcfParts ==
  {[index |-> <<>>, data |-> <<>>]}
  \cup {[index |-> <<l>>, data |-> (l :> r)] : l \in FcfLabels, r \in FcfRows}
  \cup {[index |-> <<p[1], p[2]>>, data |-> (p[1] :> p[3]) @@ (p[2] :> p[4])] :
          p \in {q \in FcfLabels \X FcfLabels \X UniformRows \X UniformRows :
                   q[1] # q[2]}}

CashflowTable(fcfPart, others) ==
  Table(fcfPart.index \o others,
        [l \in DOMAIN fcfPart.data \cup {others[i] : i \in 1..Len(others)} |->
           IF l \in DOMAIN fcfPart.data THEN fcfPart.data[l] ELSE OtherRow(l)])

IncomeTable(label) == Table(<<label>>, (label :> NumberRow(500)))

InfoKeys == {"sharesOutstanding", "floatShares", "totalDebt", "totalCash"}
ExampleInfo ==
  [key \in InfoKeys |->
     CASE key = "sharesOutstanding" -> Num(100)
       [] key = "totalDebt" -> Num(2000)
       [] key = "totalCash" -> Num(500)
       [] OTHER -> Absent]
Infos ==
  {i \in [InfoKeys -> {Absent, None, Num(0), Num(50), Num(100), Num(500), Num(2000)}] :
     /\ i["sharesOutstanding"] \in {Absent, None, Num(0), Num(100)}
     /\ i["floatShares"] \in {Absent, None, Num(0), Num(50)}
     /\ i["totalDebt"] \in {Absent, None, Num(2000)}
     /\ i["totalCash"] \in {Absent, None, Num(500)}}

Bundle(cf, income, info) == [cashflow |-> cf, income |-> income, info |-> info]

Rates == {Fin(r, RateDen) : r \in 0..MaxRate}
\* dcf_intrinsic_value takes any float: also a shrinking cash flow, a cash
\* flow that vanishes (-100%) and a rate below -100%
GrowthRates == Rates \cup {Fin(-1, RateDen), FInt(-1), FInt(-2)}
DiscountRates == Rates \cup {Fin(-1, RateDen)}
Assumptions(gy, g, tg, w) ==
  [growth_years |-> gy, growth_rate |-> g, terminal_growth |-> tg, wacc |-> w]
BaseValues == {FInt(-1000), FInt(0), FInt(480), FInt(1000)}

Unset == [k |-> "unset", n |-> 0, d |-> 1]
Running == [status |-> "running", exc |-> "", msg |-> ""]
Returned == [status |-> "returned", exc |-> "", msg |-> ""]
Raised(exc, msg) == [status |-> "raised", exc |-> exc, msg |-> msg]

\* the clock the series of the derived estimate is dated with
\* (pd.Timestamp.now().year): at first the year after the latest report
FirstYear == Columns[1] + 1

\* the outcome of an earlier call on the same bundle; none yet
NoOutcome == [result |-> Running, series |-> <<>>]

\* no dict returned (yet, or the call raised)
NoResult == <<>>

\* the dict with enterprise_value and equity_value exchanged
ResultDictExchanged(symbol, last, enterprise, equity, per_share) ==
  [symbol |-> symbol, last_fcf |-> last, enterprise_value |-> equity,
   equity_value |-> enterprise, value_per_share |-> per_share]
\* the dict intrinsic_value_per_share returns; float() keeps the value
ResultDict(symbol, last, enterprise, equity, per_share) ==
  [symbol |-> symbol, last_fcf |-> last, enterprise_value |-> enterprise,
   equity_value |-> equity, value_per_share |-> per_share]

\* the keyword arguments of a call; Omitted marks an argument not given
Omitted == [k |-> "omitted", n |-> 0, d |-> 1]
Symbols == {"RELIANCE.NS", "TCS.NS"}
Kwargs(symbol, gy, g, tg, w) ==
  [symbol |-> symbol, growth_years |-> gy, growth_rate |-> g,
   terminal_growth |-> tg, wacc |-> w]

\* the parameters of dcf_intrinsic_value before the call binds them
Unbound == [growth_years |-> 0, growth_rate |-> Unset, terminal_growth |-> Unset,
            wacc |-> Unset]

\* nothing of the data tool, the scripts, the graph node or the chat loop
\* is running
IdleAgents ==
  /\ req = <<>>
  /\ state = <<>>
  /\ payload = <<>>
  /\ next_state = <<>>
  /\ lists = <<>>
  /\ fetched = <<>>
  /\ bundle = <<>>
  /\ mongo_config = <<>>
  /\ uri = ""
  /\ file = <<>>
  /\ download = <<>>
  /\ calls = <<>>
  /\ out = <<>>
  /\ user_input = ""

\* the locals of a call into DCF.py before its first assignment
FreshLocals ==
  /\ ret = NoResult
  /\ first = NoOutcome
  /\ now_year = FirstYear
  /\ fcf_row = "None"
  /\ fcff = <<>>
  /\ fcff_series = <<>>
  /\ path = "none"
  /\ fcff_approx = Unset
  /\ ev = Unset
  /\ net_debt = Unset
  /\ equity_value = Unset
  /\ shares = Absent
  /\ value_per_share = Unset
  /\ result = Running

Locals ==
  /\ IdleAgents
  /\ FreshLocals

\* no single call into DCF.py is running
IdleDcf ==
  /\ financials = <<>>
  /\ years = DefaultYears
  /\ args = Unbound
  /\ kwargs = <<>>
  /\ last_fcf = Unset
  /\ FreshLocals

\* a call estimate_fcf_series(financials, years)
InitEstimate ==
  /\ entry = "estimate_fcf_series"
  /\ \E part \in FcfParts, fb \in FallbackInputs :
       financials = Bundle(CashflowTable(part, fb[1]), IncomeTable(fb[2]), ExampleInfo)
  /\ years \in 0..MaxYears
  /\ args = Assumptions(PerShareGrowthYears, Fin(1, RateDen), Fin(0, RateDen), Fin(1, RateDen))
  /\ kwargs = Kwargs("", Absent, Omitted, Omitted, Omitted)
  /\ last_fcf = Unset
  /\ pc = "lookup"
  /\ Locals

\* a call dcf_intrinsic_value(last_fcf, growth_years, growth_rate, terminal_growth, wacc)
InitDcf ==
  /\ entry = "dcf_intrinsic_value"
  /\ financials = Bundle(CashflowTable([index |-> <<>>, data |-> <<>>], <<>>),
                         IncomeTable("Ebit"), ExampleInfo)
  /\ years = DefaultYears
  /\ \E gy \in (-1)..MaxGrowthYears, g \in GrowthRates, tg \in DiscountRates,
        w \in DiscountRates :
       args = Assumptions(gy, g, tg, w)
  /\ kwargs = Kwargs("", Num(args.growth_years), args.growth_rate,
                     args.terminal_growth, args.wacc)
  /\ last_fcf \in BaseValues
  /\ pc = "dcf"
  /\ Locals

\* a call intrinsic_value_per_share(symbol, growth_rate, wacc, terminal_growth);
\* fetch_financials is the provider, its answer is the bundle
InitPerShare ==
  /\ entry = "intrinsic_value_per_share"
  /\ \/ /\ \E part \in {p \in FcfParts : Len(p.index) = 0
                                          \/ p.index = <<"Free Cash Flow">>} :
             financials = Bundle(CashflowTable(part,
                                   <<"Depreciation of PPE", "Capital Expenditures">>),
                                 IncomeTable("Ebit"), ExampleInfo)
        /\ kwargs = Kwargs("RELIANCE.NS", Absent, Fin(1, RateDen), Fin(0, RateDen),
                           Fin(1, RateDen))
     \/ /\ \E info \in Infos :
             financials = Bundle(CashflowTable([index |-> <<"Free Cash Flow">>,
                                                data |-> ("Free Cash Flow" :> FullRow)],
                                               <<>>),
                                 IncomeTable("Ebit"), info)
        /\ \E g \in Rates, tg \in Rates, w \in Rates :
             kwargs = Kwargs("RELIANCE.NS", Absent, g, tg, w)
  /\ args = Unbound
  /\ years = DefaultYears
  /\ last_fcf = Unset
  /\ pc = "call"
  /\ Locals

\* a call intrinsic_value_per_share(symbol, ...) with any choice of keyword
\* arguments, given or omitted
InitBind ==
  /\ entry = "intrinsic_value_per_share"
  /\ financials = Bundle(CashflowTable([index |-> <<"Free Cash Flow">>,
                                        data |-> ("Free Cash Flow" :> FullRow)],
                                       <<>>),
                         IncomeTable("Ebit"), ExampleInfo)
  /\ \E sym \in Symbols,
        gy \in {Absent} \cup {Num(n) : n \in 1..PerShareGrowthYears},
        g \in {Omitted} \cup Rates,
        tg \in {Omitted} \cup Rates,
        w \in {Omitted} \cup Rates :
       kwargs = Kwargs(sym, gy, g, tg, w)
  /\ args = Unbound
  /\ years = DefaultYears
  /\ last_fcf = Unset
  /\ pc = "call"
  /\ Locals

Init == InitEstimate \/ InitDcf \/ InitPerShare

(***************************************************************************)
(* Two valuation requests run interleaved (e.g. by two threads of a        *)
(* caller).  Each request has its own locals; the module DCF.py has no     *)
(* module-level variable, what the requests share is the clock.            *)
(***************************************************************************)
Requests == {1, 2}

\* estimate_fcf_series(fin, years) run alone, at calendar year `year`
EstimateOutcome(fin, yrs, year) ==
  LET row == FindFcfRow(fin.cashflow)
      sel == IF row = "None" THEN <<>> ELSE DirectSelection(fin.cashflow, row, yrs)
  IN  IF row # "None" /\ AsTypeFloatRaises(sel)
      THEN [result |-> Raised("ValueError", "could not convert string to float"),
            series |-> <<>>]
      ELSE IF row # "None" /\ AsTypeFloat(sel) # <<>>
      THEN [result |-> Returned, series |-> SortIndex(AsTypeFloat(sel))]
      ELSE IF FallbackRaises(fin, row)
      THEN [result |-> Raised("ValueError", "Error estimating FCFF"), series |-> <<>>]
      ELSE [result |-> Returned,
            series |-> <<[period |-> year,
                          value |-> FcffApprox(EbitCell(fin.income),
                                               DeprCell(fin.cashflow),
                                               CapexCell(fin.cashflow))]>>]

\* the locals of one request at its call
Request(fin, kw) ==
  [financials |-> fin, kwargs |-> kw, pc |-> "lookup", fcf_row |-> "None",
   fcff_series |-> <<>>,
   last_fcf |-> Unset, ev |-> Unset, net_debt |-> Unset, equity_value |-> Unset,
   shares |-> Absent, value_per_share |-> Unset, result |-> Running,
   ret |-> NoResult]

\* the bundles of the requests: a full row, a row whose latest value is
\* missing, no free-cash-flow row, a row with a placeholder, no share count
PairBundles ==
  {Bundle(CashflowTable([index |-> <<"Free Cash Flow">>,
                         data |-> ("Free Cash Flow" :> r)], <<>>),
          IncomeTable("Ebit"), ExampleInfo) :
     r \in {FullRow, [FullRow EXCEPT ![1] = NaN], [FullRow EXCEPT ![1] = Placeholder]}}
  \cup {Bundle(CashflowTable([index |-> <<>>, data |-> <<>>],
                             <<"Depreciation of PPE", "Capital Expenditures">>),
               IncomeTable("Ebit"), ExampleInfo),
        Bundle(CashflowTable([index |-> <<"Free Cash Flow">>,
                              data |-> ("Free Cash Flow" :> FullRow)], <<>>),
               IncomeTable("Ebit"), [key \in InfoKeys |-> Absent]),
        Bundle(CashflowTable([index |-> <<"Free Cash Flow">>,
                              data |-> ("Free Cash Flow" :> FullRow)], <<>>),
               IncomeTable("Ebit"),
               [ExampleInfo EXCEPT !["sharesOutstanding"] = None,
                                   !["floatShares"] = Num(50)])}

InitPair ==
  /\ entry = "two_requests"
  /\ pc = "interleaved"
  /\ IdleDcf
  /\ \E f1 \in PairBundles, f2 \in PairBundles,
        w \in {Fin(1, RateDen), Fin(MaxRate, RateDen)} :
       req = [r \in Requests |->
                IF r = 1
                THEN Request(f1, Kwargs("RELIANCE.NS", Absent, Fin(1, RateDen),
                                        Fin(0, RateDen), Fin(1, RateDen)))
                ELSE Request(f2, Kwargs("TCS.NS", Absent, Fin(0, RateDen),
                                        Fin(0, RateDen), w))]
  /\ state = <<>> /\ payload = <<>> /\ next_state = <<>> /\ lists = <<>>
  /\ fetched = <<>> /\ bundle = <<>> /\ mongo_config = <<>> /\ uri = ""
  /\ file = <<>> /\ download = <<>> /\ calls = <<>> /\ out = <<>>
  /\ user_input = ""

\* what a step of a request leaves alone: everything but req and the clock
pairFrame == <<entry, pc, result, financials, years, args, fcf_row, fcff,
               fcff_series, path, fcff_approx, last_fcf, ev, net_debt,
               equity_value, shares, value_per_share, kwargs, first, ret,
               state, payload, next_state, lists, fetched, bundle, mongo_config,
               uri, file, download, calls, out, user_input>>

\* the clock passes while the requests run
ClockTicks == now_year' \in {now_year, FirstYear + 1}

\* estimate_fcf_series(fin): the search for the free-cash-flow row
RequestLookup(r) ==
  /\ req[r].pc = "lookup"
  /\ LET row == FindFcfRow(req[r].financials.cashflow)
     IN  req' = [req EXCEPT ![r].fcf_row = row,
                            ![r].pc = IF row # "None" THEN "direct" ELSE "fallback"]
  /\ ClockTicks
  /\ UNCHANGED pairFrame

\* estimate_fcf_series(fin): the values of the row that was found
RequestDirect(r) ==
  /\ req[r].pc = "direct"
  /\ LET sel == DirectSelection(req[r].financials.cashflow, req[r].fcf_row,
                                DefaultYears)
     IN  req' = IF AsTypeFloatRaises(sel)
                THEN [req EXCEPT ![r].result =
                                   Raised("ValueError", "could not convert string to float"),
                                 ![r].pc = "done"]
                ELSE IF AsTypeFloat(sel) # <<>>
                THEN [req EXCEPT ![r].fcff_series = SortIndex(AsTypeFloat(sel)),
                                 ![r].pc = "check_series"]
                ELSE [req EXCEPT ![r].pc = "fallback"]
  /\ ClockTicks
  /\ UNCHANGED pairFrame

\* estimate_fcf_series(fin): the derived estimate, dated with the clock
RequestFallback(r) ==
  /\ req[r].pc = "fallback"
  /\ req' = IF FallbackRaises(req[r].financials, req[r].fcf_row)
            THEN [req EXCEPT ![r].result = Raised("ValueError", "Error estimating FCFF"),
                             ![r].pc = "done"]
            ELSE [req EXCEPT ![r].fcff_series =
                               <<[period |-> now_year,
                                  value |-> FcffApprox(EbitCell(req[r].financials.income),
                                                       DeprCell(req[r].financials.cashflow),
                                                       CapexCell(req[r].financials.cashflow))]>>,
                             ![r].pc = "check_series"]
  /\ ClockTicks
  /\ UNCHANGED pairFrame

\* a request reading the series of the other request, as if fcff_series were
\* a module-level variable
RequestTakeLastFcfShared(r) ==
  /\ req[r].pc = "check_series"
  /\ LET series == IF req[3 - r].fcff_series # <<>> THEN req[3 - r].fcff_series
                   ELSE req[r].fcff_series
     IN  req' = IF series = <<>>
                THEN [req EXCEPT ![r].result = Raised("ValueError", "No FCFF data computed"),
                                 ![r].pc = "done"]
                ELSE [req EXCEPT ![r].last_fcf = series[Len(series)].value,
                                 ![r].pc = "dcf"]
  /\ ClockTicks
  /\ UNCHANGED pairFrame

\* the empty-series check and last_fcf = fcff_series.iloc[-1]
RequestTakeLastFcf(r) ==
  /\ req[r].pc = "check_series"
  /\ LET series == req[r].fcff_series
     IN  req' = IF series = <<>>
                THEN [req EXCEPT ![r].result = Raised("ValueError", "No FCFF data computed"),
                                 ![r].pc = "done"]
                ELSE [req EXCEPT ![r].last_fcf = series[Len(series)].value,
                                 ![r].pc = "dcf"]
  /\ ClockTicks
  /\ UNCHANGED pairFrame

\* ev = dcf_intrinsic_value(last_fcf, growth_years=5, ...)
RequestDcf(r) ==
  /\ req[r].pc = "dcf"
  /\ LET a == DcfArguments(req[r].kwargs)
     IN  req' = IF DcfRaises(a)
                THEN [req EXCEPT ![r].result = Raised("IndexError", "index -1 is out of bounds"),
                                 ![r].pc = "done"]
                ELSE [req EXCEPT ![r].ev = EnterpriseValue(req[r].last_fcf, a),
                                 ![r].pc = "net_debt"]
  /\ ClockTicks
  /\ UNCHANGED pairFrame

\* net_debt and equity_value
RequestEquity(r) ==
  /\ req[r].pc = "net_debt"
  /\ req' = [req EXCEPT ![r].net_debt = NetDebt(req[r].financials.info),
                        ![r].equity_value = FSub(req[r].ev,
                                                 NetDebt(req[r].financials.info)),
                        ![r].pc = "select_shares"]
  /\ ClockTicks
  /\ UNCHANGED pairFrame

\* the share count
RequestShares(r) ==
  /\ req[r].pc = "select_shares"
  /\ LET sh == SelectShares(req[r].financials.info)
     IN  req' = IF ~Truthy(sh)
                THEN [req EXCEPT ![r].shares = sh,
                                 ![r].result = Raised("ValueError", "No share count available"),
                                 ![r].pc = "done"]
                ELSE [req EXCEPT ![r].shares = sh, ![r].pc = "per_share"]
  /\ ClockTicks
  /\ UNCHANGED pairFrame

\* value_per_share and the returned dict
RequestPerShare(r) ==
  /\ req[r].pc = "per_share"
  /\ LET vps == FDiv(req[r].equity_value, InfoFloat(req[r].shares))
     IN  req' = [req EXCEPT ![r].value_per_share = vps,
                            ![r].ret = ResultDict(req[r].kwargs.symbol, req[r].last_fcf,
                                                  req[r].ev, req[r].equity_value, vps),
                            ![r].result = Returned,
                            ![r].pc = "done"]
  /\ ClockTicks
  /\ UNCHANGED pairFrame

NextPair ==
  \/ \E r \in Requests : RequestLookup(r)
  \/ \E r \in Requests : RequestDirect(r)
  \/ \E r \in Requests : RequestFallback(r)
  \/ \E r \in Requests : RequestTakeLastFcf(r)
  \/ \E r \in Requests : RequestDcf(r)
  \/ \E r \in Requests : RequestEquity(r)
  \/ \E r \in Requests : RequestShares(r)
  \/ \E r \in Requests : RequestPerShare(r)
SpecPair == InitPair /\ [][NextPair]_vars

(***************************************************************************)
(* src/src/agents/data_tool.py: update_state_with_data.  A dict is a       *)
(* function from its keys; a list is an object of the heap `lists`, named  *)
(* by its identity, so that two dicts can hold the same list.              *)
(***************************************************************************)
MaxRecords == 2      \* records of a part of the payload
MaxMessages == 2     \* messages of the state at the call

\* a message: what the user typed, a summary, a reply of the model
Message(kind, a, b, c) == [kind |-> kind, a |-> a, b |-> b, c |-> c]
UserMessage(n) == Message("user", n, 0, 0)

\* f"Loaded fundamentals ({..} records), technicals ({..}), prices ({..})."
Summary(pl) ==
  Message("Loaded", Len(pl["fundamentals"].records), Len(pl["technicals"].records),
          Len(pl["prices"].records))

Records(n) == [i \in 1..n |-> i]
Part(n) == [source |-> "finnhub", records |-> Records(n)]

\* DataBundle.as_payload(), and a payload without its technicals
Payloads ==
  {("symbol" :> sym) @@ ("fundamentals" :> Part(f)) @@ ("technicals" :> Part(t))
     @@ ("prices" :> Part(p)) :
     sym \in {"AAPL"}, f \in 0..MaxRecords, t \in 0..MaxRecords, p \in 0..MaxRecords}
  \cup {("symbol" :> "AAPL") @@ ("fundamentals" :> Part(f)) @@ ("prices" :> Part(p)) :
          f \in 0..MaxRecords, p \in 0..MaxRecords}

\* the identity of the messages list of the state passed in, and of a list
\* made by the call
StateList == 1
FreshList == 2

\* the lists of messages a state can hold at the call
MessageLists == {[i \in 1..n |-> UserMessage(i)] : n \in 0..MaxMessages}

\* dict.get(key): None for a missing key
DictGet(dict, key) == IF key \in DOMAIN dict THEN dict[key] ELSE "None"

InitUpdateState ==
  /\ entry = "update_state_with_data"
  /\ pc = "call"
  /\ IdleDcf
  /\ payload \in Payloads
  /\ \/ /\ lists = <<>>
        /\ state \in {<<>>, ("symbol" :> "MSFT")}
     \/ /\ \E ms \in MessageLists : lists = (StateList :> ms)
        /\ state \in {("messages" :> StateList),
                       ("messages" :> StateList) @@ ("symbol" :> "MSFT")}
  /\ next_state = <<>>
  /\ req = <<>> /\ fetched = <<>> /\ bundle = <<>> /\ mongo_config = <<>>
  /\ uri = "" /\ file = <<>> /\ download = <<>> /\ calls = <<>> /\ out = <<>>
  /\ user_input = ""

\* next_state = dict(state) and the four assignments
CopyWithData(st, pl) ==
  ("symbol" :> DictGet(pl, "symbol"))
  @@ ("fundamental_data" :> DictGet(pl, "fundamentals"))
  @@ ("technical_data" :> DictGet(pl, "technicals"))
  @@ ("price_data" :> DictGet(pl, "prices"))
  @@ st

\* the three subscripts payload['...']['records'] of the summary
SummaryRaises(pl) == ~({"fundamentals", "technicals", "prices"} \subseteq DOMAIN pl)

UpdateStateWithData ==
  /\ entry = "update_state_with_data"
  /\ pc = "call"
  /\ pc' = "done"
  /\ IF SummaryRaises(payload)
     THEN /\ result' = Raised("KeyError", "technicals")
          /\ UNCHANGED <<next_state, lists>>
     ELSE /\ result' = Returned
          /\ LET copy == CopyWithData(state, payload)
             IN  IF "messages" \in DOMAIN copy
                 THEN \* setdefault returns the list the copy already holds
                      /\ next_state' = copy
                      /\ lists' = [lists EXCEPT ![copy["messages"]] =
                                     Append(@, Summary(payload))]
                 ELSE /\ next_state' = ("messages" :> FreshList) @@ copy
                      /\ lists' = (FreshList :> <<Summary(payload)>>) @@ lists
  /\ UNCHANGED <<entry, dcfVars, req, state, payload, fetched, bundle, mongo_config,
                 uri, file, download, calls, out, user_input>>

NextUpdateState == UpdateStateWithData
SpecUpdateState == InitUpdateState /\ [][NextUpdateState]_vars

(***************************************************************************)
(* src/src/agents/data_tool.py: DataIntegrationTool.run.  The provider is  *)
(* modelled by its answer to each of the three requests.                   *)
(***************************************************************************)
MaxRows == 2         \* rows of a table the provider answers with

\* the base class of an exception class (requests, json, builtins)
ExceptionBase(exc) ==
  CASE exc = "JSONDecodeError" -> "ValueError"
    [] exc = "HTTPError" -> "RequestException"
    [] exc = "ConnectionError" -> "RequestException"
    [] exc = "RequestException" -> "OSError"
    [] exc = "EnvironmentError" -> "OSError"
    [] exc = "DataSourceError" -> "RuntimeError"
    [] OTHER -> "Exception"

\* isinstance(exc, handled) for an except clause naming the classes `handled`
RECURSIVE Catches(_, _)
Catches(handled, exc) ==
  \/ exc \in handled
  \/ exc # "Exception" /\ Catches(handled, ExceptionBase(exc))

\* an except clause for HTTP errors only
OptionalHandlersHttpOnly == {"HTTPError"}
\* except (requests.HTTPError, DataSourceError, ValueError)
OptionalHandlers == {"HTTPError", "DataSourceError", "ValueError"}

\* what the provider does with a request
ResponseKinds == {"ok", "no_data", "ragged", "http_error", "error_payload",
                  "invalid_json", "connection_error"}
Response(kind, rows) == [kind |-> kind, rows |-> rows]
Responses ==
  {Response("ok", n) : n \in 1..MaxRows}
  \cup {Response(k, 0) : k \in ResponseKinds \ {"ok"}}

NoException == ""

\* _request_json: the exception it ends with, if any
RequestJsonRaises(resp) ==
  CASE resp.kind = "connection_error" -> "ConnectionError"
    [] resp.kind = "http_error" -> "HTTPError"
    [] resp.kind = "invalid_json" -> "JSONDecodeError"
    [] resp.kind = "error_payload" -> "DataSourceError"
    [] OTHER -> NoException

\* a DataFrame: what it holds and how many rows
Frame(part, rows) == [part |-> part, rows |-> rows]
EmptyFrame == Frame("", 0)

\* the result of a fetch: the exception it raises, or the table it returns
Fetched(exc, table) == [raised |-> exc, table |-> table]

\* fetch_fundamental_data, then _flatten_financials: one row per filing, the
\* report sections spread into columns; an empty table stays as it is
FetchFundamentals(resp, key) ==
  IF ~key THEN Fetched("EnvironmentError", EmptyFrame)
  ELSE IF RequestJsonRaises(resp) # NoException
  THEN Fetched(RequestJsonRaises(resp), EmptyFrame)
  ELSE IF resp.kind = "ok" THEN Fetched(NoException, Frame("flattened filings", resp.rows))
  ELSE Fetched(NoException, EmptyFrame)

\* fetch_technical_indicators: no list in the answer gives an empty table,
\* lists of unequal length make pd.DataFrame raise ValueError
FetchTechnicals(resp, key) ==
  IF ~key THEN Fetched("EnvironmentError", EmptyFrame)
  ELSE IF RequestJsonRaises(resp) # NoException
  THEN Fetched(RequestJsonRaises(resp), EmptyFrame)
  ELSE IF resp.kind = "ragged" THEN Fetched("ValueError", EmptyFrame)
  ELSE IF resp.kind = "ok" THEN Fetched(NoException, Frame("indicator", resp.rows))
  ELSE Fetched(NoException, EmptyFrame)

\* fetch_price_series: a status other than "ok" gives an empty table
FetchPrices(resp, key) ==
  IF ~key THEN Fetched("EnvironmentError", EmptyFrame)
  ELSE IF RequestJsonRaises(resp) # NoException
  THEN Fetched(RequestJsonRaises(resp), EmptyFrame)
  ELSE IF resp.kind = "ragged" THEN Fetched("ValueError", EmptyFrame)
  ELSE IF resp.kind = "ok" THEN Fetched(NoException, Frame("candles", resp.rows))
  ELSE Fetched(NoException, EmptyFrame)

NoBundle == <<>>

InitRun ==
  /\ entry = "run"
  /\ pc = "fundamentals"
  /\ IdleDcf
  /\ \E f \in Responses, t \in Responses, p \in Responses,
        dates \in BOOLEAN, key \in BOOLEAN :
       fetched = [fundamentals |-> f, technicals |-> t, prices |-> p,
                  dates_valid |-> dates, api_key |-> key]
  /\ bundle = NoBundle
  /\ out = [fundamentals |-> EmptyFrame, technicals |-> EmptyFrame,
            prices |-> EmptyFrame]
  /\ req = <<>> /\ state = <<>> /\ payload = <<>> /\ next_state = <<>>
  /\ lists = <<>> /\ mongo_config = <<>> /\ uri = "" /\ file = <<>>
  /\ download = <<>> /\ calls = <<>> /\ user_input = ""

runFrame == <<entry, dcfVars, req, state, payload, next_state, lists, fetched,
              mongo_config, uri, file, download, user_input>>

\* start_ts, end_ts and fundamentals: nothing catches what they raise
RunFundamentals ==
  /\ entry = "run"
  /\ pc = "fundamentals"
  /\ IF ~fetched.dates_valid
     THEN /\ result' = Raised("ValueError", "Invalid isoformat string")
          /\ pc' = "done"
          /\ UNCHANGED <<out, calls>>
     ELSE LET f == FetchFundamentals(fetched.fundamentals, fetched.api_key)
          IN  /\ calls' = Append(calls, "fetch_fundamental_data")
              /\ IF f.raised # NoException
                 THEN /\ result' = Raised(f.raised, "fundamentals")
                      /\ pc' = "done"
                      /\ UNCHANGED out
                 ELSE /\ out' = [out EXCEPT !.fundamentals = f.table]
                      /\ pc' = "technicals"
                      /\ UNCHANGED result
  /\ UNCHANGED <<runFrame, bundle>>

\* technicals, in its try block
RunTechnicals ==
  /\ entry = "run"
  /\ pc = "technicals"
  /\ calls' = Append(calls, "fetch_technical_indicators")
  /\ LET t == FetchTechnicals(fetched.technicals, fetched.api_key)
     IN  IF t.raised = NoException
         THEN /\ out' = [out EXCEPT !.technicals = t.table]
              /\ pc' = "prices"
              /\ UNCHANGED result
         ELSE IF Catches(OptionalHandlers, t.raised)
         THEN /\ out' = [out EXCEPT !.technicals = EmptyFrame]
              /\ pc' = "prices"
              /\ UNCHANGED result
         ELSE /\ result' = Raised(t.raised, "technicals")
              /\ pc' = "done"
              /\ UNCHANGED out
  /\ UNCHANGED <<runFrame, bundle>>

\* prices, in its try block, and the returned DataBundle
RunPrices ==
  /\ entry = "run"
  /\ pc = "prices"
  /\ calls' = Append(calls, "fetch_price_series")
  /\ LET p == FetchPrices(fetched.prices, fetched.api_key)
     IN  IF p.raised # NoException /\ ~Catches(OptionalHandlers, p.raised)
         THEN /\ result' = Raised(p.raised, "prices")
              /\ UNCHANGED <<out, bundle>>
         ELSE /\ out' = [out EXCEPT !.prices =
                           IF p.raised = NoException THEN p.table ELSE EmptyFrame]
              /\ bundle' = out'
              /\ result' = Returned
  /\ pc' = "done"
  /\ UNCHANGED runFrame

NextRun == RunFundamentals \/ RunTechnicals \/ RunPrices
SpecRun == InitRun /\ [][NextRun]_vars

(***************************************************************************)
(* src/src/agents/data_tool.py: DataIntegrationTool.__init__ and           *)
(* store_payload.  A setting is None, the empty string or a value.         *)
(***************************************************************************)
NoValue == "None"
Falsy(x) == x \in {NoValue, ""}
\* Python's `a or b`
Or(a, b) == IF Falsy(a) THEN b ELSE a
\* os.getenv(name) and os.getenv(name, default)
Getenv(env, name, default) == IF env[name] = NoValue THEN default ELSE env[name]

MongoSettings == {"uri", "username", "password", "host", "port"}
\* MONGODB_HOST and MONGODB_PORT have defaults, the others have none
EnvDefault(name) ==
  CASE name = "host" -> "localhost"
    [] name = "port" -> "27017"
    [] OTHER -> NoValue

\* a connection string, kept in its parts
Uri(kind, text, user, pwd, host, port) ==
  [kind |-> kind, text |-> text, user |-> user, pwd |-> pwd, host |-> host, port |-> port]
NoUri == Uri("None", "", "", "", "", "")

\* _compose_mongo_uri
ComposeMongoUri(u, username, password, host, port) ==
  IF ~Falsy(username) /\ ~Falsy(password)
  THEN Uri("credentials", "", username, password, Or(host, "localhost"), Or(port, "27017"))
  ELSE IF ~Falsy(u) THEN Uri("given", u, "", "", "", "")
  ELSE LET h == Or(host, "localhost")
           q == Or(port, "27017")
       IN  IF ~Falsy(h) THEN Uri("host", "", "", "", h, q) ELSE NoUri

\* the values a setting takes in the environment, in the constructor call
\* and in the call of store_payload
EnvValues(name) == IF name = "host" THEN {NoValue, "", "env"} ELSE {NoValue, "env"}
CtorValues(name) == IF name = "port" THEN {NoValue} ELSE {NoValue, "ctor"}
ArgValues(name) == {NoValue, "arg"}

NoSettings == [name \in MongoSettings |-> NoValue]

InitStore ==
  /\ entry = "store_payload"
  /\ pc = "init"
  /\ IdleDcf
  /\ \E env \in [MongoSettings -> {NoValue, "", "env"}],
        ctor \in [MongoSettings -> {NoValue, "ctor"}],
        arg \in [MongoSettings -> {NoValue, "arg"}],
        server \in {"up", "down"} :
       /\ \A name \in MongoSettings :
            /\ env[name] \in EnvValues(name)
            /\ ctor[name] \in CtorValues(name)
            /\ arg[name] \in ArgValues(name)
       /\ mongo_config = [env |-> env, ctor |-> ctor, arg |-> arg, self |-> NoSettings,
                          server |-> server]
  /\ uri = NoUri
  /\ calls = <<>>
  /\ req = <<>> /\ state = <<>> /\ payload = <<>> /\ next_state = <<>>
  /\ lists = <<>> /\ fetched = <<>> /\ bundle = <<>> /\ file = <<>>
  /\ download = <<>> /\ out = <<>> /\ user_input = ""

storeFrame == <<entry, dcfVars, req, state, payload, next_state, lists, fetched,
                bundle, file, download, out, user_input>>

\* DataIntegrationTool.__init__: self.mongo_x = mongo_x or MONGODB_X
ToolInit ==
  /\ entry = "store_payload"
  /\ pc = "init"
  /\ pc' = "store"
  /\ mongo_config' =
       [mongo_config EXCEPT !.self =
          [name \in MongoSettings |->
             Or(mongo_config.ctor[name],
                Getenv(mongo_config.env, name, EnvDefault(name)))]]
  /\ UNCHANGED <<storeFrame, result, uri, calls>>

\* store_payload
StorePayload ==
  /\ entry = "store_payload"
  /\ pc = "store"
  /\ pc' = "done"
  /\ LET setting(name) == Or(mongo_config.arg[name], mongo_config.self[name])
         composed == ComposeMongoUri(setting("uri"), setting("username"),
                                     setting("password"), setting("host"),
                                     setting("port"))
     IN  /\ uri' = composed
         /\ IF composed = NoUri
            THEN /\ result' = Raised("EnvironmentError",
                                     "MongoDB storage requested but no URI provided")
                 /\ UNCHANGED calls
            ELSE /\ calls' = Append(calls, "MongoClient")
                 /\ result' = IF mongo_config.server = "up" THEN Returned
                              ELSE Raised("RuntimeError", "Failed to store payload in MongoDB")
  /\ UNCHANGED <<storeFrame, mongo_config>>

NextStore == ToolInit \/ StorePayload
SpecStore == InitStore /\ [][NextStore]_vars

(***************************************************************************)
(* src/execution_scripts/fetch_finance_crypto.py and                       *)
(* fetch_finance_indstocks.py: fetch_and_save, called by both scripts with *)
(* the default interval "5m".  The file of one ticker is modelled by the   *)
(* JSON value it holds.                                                    *)
(***************************************************************************)
MaxDatetimes == 2    \* distinct bar times the provider answers with
MaxCalls == 3        \* calls of fetch_and_save on the ticker

Closes == {1, 2}
\* one row of df.to_dict(orient='records'): the bar time as a string and
\* the prices
Bar(dt, close) == [Datetime |-> dt, Close |-> close]
Bars == {Bar(dt, c) : dt \in 1..MaxDatetimes, c \in Closes}

\* stock.history(...): the rows in time order, one row per bar time;
\* the empty table when the provider has nothing
Downloads ==
  UNION {{d \in [1..n -> Bars] :
            \A i \in 1..n, j \in 1..n : i < j => d[i].Datetime < d[j].Datetime}
         : n \in 0..MaxDatetimes}

\* what the file holds: no file, text that is not JSON, a JSON value that is
\* not a list, a list of numbers, or a list of records
File(kind, records) == [kind |-> kind, records |-> records]
NoFile == File("absent", <<>>)
ForeignFiles == {NoFile, File("invalid", <<>>), File("object", <<>>),
                 File("numbers", <<>>), File("list", <<>>)}

\* record.get(datetime_col) for the records of existing_data
ExistingDates(existing) == {existing[i].Datetime : i \in DOMAIN existing}

\* the merge that appends every downloaded record
NewRecordsUnfiltered(existing, new_data) == new_data
\* new_records: the downloaded records whose time is not in existing_dates
NewRecords(existing, new_data) ==
  LET fresh(r) == r.Datetime \notin ExistingDates(existing)
  IN  SelectSeq(new_data, fresh)

\* data, the list that is dumped
Data(f, new_data) ==
  IF f.kind = "list" /\ f.records # <<>>
  THEN f.records \o NewRecords(f.records, new_data)
  ELSE new_data

\* the file after fetch_and_save has run on download d
FileAfter(f, d) == IF d = <<>> THEN f ELSE File("list", Data(f, d))

InitFetch ==
  /\ entry = "fetch_and_save"
  /\ pc = "idle"
  /\ IdleDcf
  /\ file \in ForeignFiles
  /\ out = NoFile
  /\ download = <<>>
  /\ calls = [n |-> 0, writes |-> 0, last |-> ""]
  /\ req = <<>> /\ state = <<>> /\ payload = <<>> /\ next_state = <<>>
  /\ lists = <<>> /\ fetched = <<>> /\ bundle = <<>> /\ mongo_config = <<>>
  /\ uri = "" /\ user_input = ""

\* one call of fetch_and_save; out keeps the file as the call found it
FetchAndSave ==
  /\ entry = "fetch_and_save"
  /\ calls.n < MaxCalls
  /\ \E d \in Downloads :
       /\ download' = d
       /\ out' = file
       /\ file' = FileAfter(file, d)
       /\ calls' = [n |-> calls.n + 1,
                    writes |-> IF d = <<>> THEN calls.writes ELSE calls.writes + 1,
                    last |-> IF d = <<>> THEN "returned early" ELSE "written"]
  /\ pc' = "called"
  /\ result' = Returned
  /\ UNCHANGED <<entry, dcfVars, req, state, payload, next_state, lists, fetched,
                 bundle, mongo_config, uri, user_input>>

NextFetch == FetchAndSave
SpecFetch == InitFetch /\ [][NextFetch]_vars

(***************************************************************************)
(* src/src/agents/graph.py: call_model, with the functions it calls in     *)
(* src/src/agents/tools.py and src/src/agents/graph_helpers.py.            *)
(***************************************************************************)
\* the positional parameters a function requires (its def line)
RequiredParameters(fn) ==
  CASE fn = "fetch_fundamentals" -> 1
    [] fn = "calculate_ratios" -> 3
    [] fn = "analyze_news_sentiment" -> 1
    [] fn = "build_financial_graph" -> 2
    [] fn = "create_gemini_visualization" -> 1

\* the positional arguments call_model passes to it
ArgumentsPassed(fn) ==
  CASE fn = "fetch_fundamentals" -> 1
    [] fn = "calculate_ratios" -> 1
    [] fn = "analyze_news_sentiment" -> 1
    [] fn = "build_financial_graph" -> 3
    [] fn = "create_gemini_visualization" -> 1

\* Python binds a call only when the arguments fit the parameters; none of
\* these functions has a default or a variadic parameter
Binds(fn) == ArgumentsPassed(fn) = RequiredParameters(fn)

\* the states the node is called with: the symbol missing, empty or given
GraphSymbols == {"AAPL", "MSFT"}
GraphStates == {<<>>, [symbol |-> ""]} \cup {[symbol |-> y] : y \in GraphSymbols}

\* state.get("symbol", "")
SymbolOf(st) == IF "symbol" \in DOMAIN st THEN st["symbol"] ELSE ""

\* tools.fetch_fundamentals: the exception it raises, or the rows it returns;
\* an answer without a 'data' key raises ValueError
ToolsFetchFundamentals(resp) ==
  CASE resp.kind = "connection_error" -> Fetched("ConnectionError", EmptyFrame)
    [] resp.kind = "http_error" -> Fetched("HTTPError", EmptyFrame)
    [] resp.kind = "invalid_json" -> Fetched("JSONDecodeError", EmptyFrame)
    [] resp.kind = "error_payload" -> Fetched("ValueError", EmptyFrame)
    [] resp.kind = "ok" -> Fetched(NoException, Frame("filings", resp.rows))
    [] OTHER -> Fetched(NoException, EmptyFrame)

ToolsResponses == {r \in Responses : r.kind # "ragged"}

\* the dict call_model returns, by its keys, with the error text if any
ResultKeys == {"fundamentals", "ratios", "sentiments", "visualization_url", "symbol"}
NodeResult(keys, error, trace) == [keys |-> keys, error |-> error, calls |-> trace]
ErrorResult(error, trace) == NodeResult({"error", "symbol"}, error, trace)

\* the body of call_model, statement by statement; every exception of the
\* try block is turned into an error result
CallModelBody(st, env) ==
  LET symbol == SymbolOf(st)
      f == ToolsFetchFundamentals(env.fundamentals)
      t1 == <<"fetch_fundamentals">>
      t2 == Append(t1, "calculate_ratios")
      t3 == Append(t2, "analyze_news_sentiment")
      t4 == Append(t3, "build_financial_graph")
      t5 == Append(t4, "create_gemini_visualization")
  IN  IF symbol = "" THEN ErrorResult("No symbol provided", <<>>)
      ELSE IF ~Binds("fetch_fundamentals") THEN ErrorResult("TypeError", <<>>)
      ELSE IF f.raised # NoException THEN ErrorResult(f.raised, t1)
      ELSE IF ~Binds("calculate_ratios") THEN ErrorResult("TypeError", t1)
      ELSE IF f.table = EmptyFrame THEN ErrorResult("KeyError", t2)
      ELSE IF ~Binds("analyze_news_sentiment") THEN ErrorResult("TypeError", t2)
      ELSE IF env.sentiment # "ok" THEN ErrorResult(env.sentiment, t3)
      ELSE IF ~Binds("build_financial_graph") THEN ErrorResult("TypeError", t3)
      ELSE IF ~Binds("create_gemini_visualization") THEN ErrorResult("TypeError", t4)
      ELSE NodeResult(ResultKeys, "", t5)

InitCallModel ==
  /\ entry = "call_model"
  /\ pc = "call"
  /\ IdleDcf
  /\ state \in GraphStates
  /\ \E f \in ToolsResponses, sentiment \in {"ok", "RuntimeError"},
        viz \in {"url", "no url"} :
       fetched = [fundamentals |-> f, sentiment |-> sentiment, visualization |-> viz]
  /\ out = <<>>
  /\ calls = <<>>
  /\ req = <<>> /\ payload = <<>> /\ next_state = <<>> /\ lists = <<>>
  /\ bundle = <<>> /\ mongo_config = <<>> /\ uri = "" /\ file = <<>>
  /\ download = <<>> /\ user_input = ""

CallModel ==
  /\ entry = "call_model"
  /\ pc = "call"
  /\ pc' = "done"
  /\ LET r == CallModelBody(state, fetched)
     IN  /\ out' = [keys |-> r.keys, error |-> r.error, symbol |-> SymbolOf(state)]
         /\ calls' = r.calls
  /\ result' = Returned
  /\ UNCHANGED <<entry, dcfVars, req, state, payload, next_state, lists, fetched,
                 bundle, mongo_config, uri, file, download, user_input>>

NextCallModel == CallModel
SpecCallModel == InitCallModel /\ [][NextCallModel]_vars

(***************************************************************************)
(* src/src/agents/agent_runner.py: run_chatbot, one action per pass of the *)
(* loop, with gemini_chat_tool of src/src/agents/tools.py.                 *)
(***************************************************************************)
MaxTurns == 2        \* lines the user types

\* the lines the user types
UserInputs == {"hello", "exit", "Exit", "EXIT", "fundamental:", "fundamental:  ",
               "fundamental:AAPL", "Fundamental:AAPL"}

\* str.lower()
Lower(line) ==
  CASE line \in {"exit", "Exit", "EXIT"} -> "exit"
    [] line \in {"fundamental:AAPL", "Fundamental:AAPL"} -> "fundamental:aapl"
    [] OTHER -> line

\* user_input.startswith("fundamental:")
StartsWithFundamental(line) ==
  line \in {"fundamental:", "fundamental:  ", "fundamental:AAPL"}

\* user_input.split("fundamental:", 1)[1].strip()
SymbolAfterPrefix(line) == IF line = "fundamental:AAPL" THEN "AAPL" ELSE ""

\* what fetch_fundamentals and the Gemini request do during one pass
FetchOutcomes == {"rows", "empty", "raises"}
\* call_gemini_api: status 200 with a candidate, another status (the error
\* text is the reply), or an exception (no connection, no candidate)
GeminiOutcomes == {"reply", "error reply", "raises"}

\* the analysis that never abandons the pass
AbandonsPassNever(line, fetch) == FALSE
\* the `continue` statements of the analysis: no symbol, no rows, or a
\* failed fetch
AbandonsPass(line, fetch) ==
  /\ StartsWithFundamental(line)
  /\ \/ SymbolAfterPrefix(line) = ""
     \/ fetch \in {"empty", "raises"}

\* the summary message of the analysis: calculate_ratios is called with one
\* argument, so ratios_df is None
SummaryMessage ==
  IF Binds("calculate_ratios") THEN "Fundamental analysis complete"
  ELSE "Fundamental analysis completed with limited data."

\* the messages appended before gemini_chat_tool is reached
BeforeChat(line) ==
  IF StartsWithFundamental(line) THEN <<line, SummaryMessage>> ELSE <<line>>

\* what gemini_chat_tool appends
BotReplies == {"reply", "Error: 500"}
GeminiChatTool(messages, gemini) ==
  CASE gemini = "reply" -> Append(messages, "reply")
    [] gemini = "error reply" -> Append(messages, "Error: 500")
    [] OTHER -> messages

InitChat ==
  /\ entry = "run_chatbot"
  /\ pc = "prompt"
  /\ IdleDcf
  /\ state = [messages |-> <<>>]
  /\ user_input = ""
  /\ fetched = [fundamentals |-> "rows", gemini |-> "reply"]
  /\ calls = [turns |-> 0, gemini |-> 0, fetch |-> 0]
  /\ out = [messages |-> <<>>, gemini |-> 0]
  /\ req = <<>> /\ payload = <<>> /\ next_state = <<>> /\ lists = <<>>
  /\ bundle = <<>> /\ mongo_config = <<>> /\ uri = "" /\ file = <<>>
  /\ download = <<>>

chatFrame == <<entry, dcfVars, req, payload, next_state, lists, bundle, mongo_config,
               uri, file, download, result>>

\* one pass of the loop on a line other than "exit"; out keeps the messages
\* and the number of chat calls as the pass found them
Turn ==
  /\ entry = "run_chatbot"
  /\ pc = "prompt"
  /\ calls.turns < MaxTurns
  /\ \E line \in UserInputs, fetch \in FetchOutcomes, gemini \in GeminiOutcomes :
       /\ Lower(line) # "exit"
       /\ user_input' = line
       /\ fetched' = [fundamentals |-> fetch, gemini |-> gemini]
       /\ out' = [messages |-> state.messages, gemini |-> calls.gemini]
       /\ IF AbandonsPass(line, fetch)
          THEN /\ state' = [state EXCEPT !.messages = Append(@, line)]
               /\ calls' = [calls EXCEPT !.turns = @ + 1,
                              !.fetch = IF SymbolAfterPrefix(line) = "" THEN @ ELSE @ + 1]
          ELSE /\ state' = [state EXCEPT !.messages =
                              GeminiChatTool(@ \o BeforeChat(line), gemini)]
               /\ calls' = [calls EXCEPT !.turns = @ + 1,
                              !.gemini = @ + 1,
                              !.fetch = IF StartsWithFundamental(line) THEN @ + 1 ELSE @]
  /\ pc' = "prompt"
  /\ UNCHANGED chatFrame

\* the line "exit" in any letter case
Exit ==
  /\ entry = "run_chatbot"
  /\ pc = "prompt"
  /\ \E line \in UserInputs :
       /\ Lower(line) = "exit"
       /\ user_input' = line
  /\ out' = [messages |-> state.messages, gemini |-> calls.gemini]
  /\ pc' = "ended"
  /\ UNCHANGED <<chatFrame, state, fetched, calls>>

\* KeyboardInterrupt at the prompt
Interrupt ==
  /\ entry = "run_chatbot"
  /\ pc = "prompt"
  /\ out' = [messages |-> state.messages, gemini |-> calls.gemini]
  /\ pc' = "interrupted"
  /\ UNCHANGED <<chatFrame, state, fetched, calls, user_input>>

NextChat == Turn \/ Exit \/ Interrupt
SpecChat == InitChat /\ [][NextChat]_vars

(***************************************************************************)
(* Actions: the blocks of the three functions.                             *)
(***************************************************************************)
\* where control goes when estimate_fcf_series returns
AfterEstimate == IF entry = "estimate_fcf_series" THEN "done" ELSE "check_series"
\* where control goes when dcf_intrinsic_value returns
AfterDcf == IF entry = "dcf_intrinsic_value" THEN "done" ELSE "net_debt"

\* intrinsic_value_per_share: the binding of the keyword arguments to the
\* parameters, and of these to the parameters of dcf_intrinsic_value
PassAssumptions ==
  /\ pc = "call"
  /\ IF UnexpectedKeyword(kwargs)
     THEN /\ result' = Raised("TypeError", "unexpected keyword argument")
          /\ pc' = "done"
          /\ UNCHANGED args
     ELSE /\ args' = DcfArguments(kwargs)
          /\ pc' = "lookup"
          /\ UNCHANGED result
  /\ UNCHANGED <<agentVars, kwargs, now_year, first, ret, entry, financials, years, fcf_row,
                 fcff, fcff_series, path, fcff_approx, last_fcf, ev, net_debt,
                 equity_value, shares, value_per_share>>

\* a second call of estimate_fcf_series on the same bundle, some time after
\* the first has ended
CallAgain ==
  /\ entry = "estimate_fcf_series"
  /\ pc = "done"
  /\ first = NoOutcome
  /\ first' = [result |-> result, series |-> fcff_series]
  /\ now_year' \in {now_year, now_year + 1}
  /\ pc' = "lookup"
  /\ fcf_row' = "None"
  /\ fcff' = <<>>
  /\ fcff_series' = <<>>
  /\ path' = "none"
  /\ fcff_approx' = Unset
  /\ result' = Running
  /\ UNCHANGED <<agentVars, kwargs, ret, entry, financials, years, args, last_fcf, ev,
                 net_debt, equity_value, shares, value_per_share>>

\* estimate_fcf_series: the search for the free-cash-flow row
LookupFcfRow ==
  /\ UNCHANGED ret
  /\ pc = "lookup"
  /\ fcf_row' = FindFcfRow(financials.cashflow)
  /\ pc' = IF fcf_row' # "None" THEN "direct" ELSE "fallback"
  /\ UNCHANGED <<agentVars, kwargs, now_year, first, entry, financials, years, args, fcff, fcff_series, path,
                 fcff_approx, last_fcf, ev, net_debt, equity_value, shares,
                 value_per_share, result>>

\* estimate_fcf_series: `if fcf_row:` ... `return fcff.sort_index()`
DirectLookup ==
  /\ UNCHANGED ret
  /\ pc = "direct"
  /\ LET sel == DirectSelection(financials.cashflow, fcf_row, years)
     IN  IF AsTypeFloatRaises(sel)
         THEN /\ result' = Raised("ValueError", "could not convert string to float")
              /\ pc' = "done"
              /\ UNCHANGED <<fcff, fcff_series, path>>
         ELSE /\ fcff' = AsTypeFloat(sel)
              /\ IF fcff' # <<>>
                 THEN /\ fcff_series' = SortIndex(fcff')
                      /\ path' = "direct"
                      /\ pc' = AfterEstimate
                      /\ result' = IF entry = "estimate_fcf_series"
                                   THEN Returned ELSE result
                 ELSE /\ pc' = "fallback"
                      /\ UNCHANGED <<fcff_series, path, result>>
  /\ UNCHANGED <<agentVars, kwargs, now_year, first, entry, financials, years, args, fcf_row, fcff_approx, last_fcf,
                 ev, net_debt, equity_value, shares, value_per_share>>

\* estimate_fcf_series: the derived estimate, from "Estimating FCFF ..." on
DerivedFallback ==
  /\ UNCHANGED ret
  /\ pc = "fallback"
  /\ path' = "fallback"
  /\ fcff_approx' = FcffApprox(EbitCell(financials.income),
                               DeprCell(financials.cashflow),
                               CapexCell(financials.cashflow))
  /\ IF FallbackRaises(financials, fcf_row)
     THEN /\ result' = Raised("ValueError", "Error estimating FCFF")
          /\ pc' = "done"
          /\ UNCHANGED fcff_series
     ELSE /\ fcff_series' = <<[period |-> now_year, value |-> fcff_approx']>>
          /\ pc' = AfterEstimate
          /\ result' = IF entry = "estimate_fcf_series" THEN Returned ELSE result
  /\ UNCHANGED <<agentVars, kwargs, now_year, first, entry, financials, years, args, fcf_row, fcff, last_fcf, ev,
                 net_debt, equity_value, shares, value_per_share>>

\* intrinsic_value_per_share taking the first element of the series (iloc[0])
TakeOldestFcf ==
  /\ UNCHANGED ret
  /\ pc = "check_series"
  /\ IF fcff_series = <<>>
     THEN /\ result' = Raised("ValueError", "No FCFF data computed")
          /\ pc' = "done"
          /\ UNCHANGED last_fcf
     ELSE /\ last_fcf' = fcff_series[1].value
          /\ pc' = "dcf"
          /\ UNCHANGED result
  /\ UNCHANGED <<agentVars, kwargs, now_year, first, entry, financials, years, args, fcf_row, fcff, fcff_series,
                 path, fcff_approx, ev, net_debt, equity_value, shares,
                 value_per_share>>

\* intrinsic_value_per_share: the empty-series check and last_fcf
TakeLastFcf ==
  /\ UNCHANGED ret
  /\ pc = "check_series"
  /\ IF fcff_series = <<>>
     THEN /\ result' = Raised("ValueError", "No FCFF data computed")
          /\ pc' = "done"
          /\ UNCHANGED last_fcf
     ELSE /\ last_fcf' = fcff_series[Len(fcff_series)].value
          /\ pc' = "dcf"
          /\ UNCHANGED result
  /\ UNCHANGED <<agentVars, kwargs, now_year, first, entry, financials, years, args, fcf_row, fcff, fcff_series,
                 path, fcff_approx, ev, net_debt, equity_value, shares,
                 value_per_share>>

\* dcf_intrinsic_value
DcfIntrinsicValue ==
  /\ UNCHANGED ret
  /\ pc = "dcf"
  /\ IF DcfRaises(args)
     THEN /\ result' = Raised("IndexError", "index -1 is out of bounds")
          /\ pc' = "done"
          /\ UNCHANGED ev
     ELSE /\ ev' = EnterpriseValue(last_fcf, args)
          /\ pc' = AfterDcf
          /\ result' = IF entry = "dcf_intrinsic_value" THEN Returned ELSE result
  /\ UNCHANGED <<agentVars, kwargs, now_year, first, entry, financials, years, args, fcf_row, fcff, fcff_series,
                 path, fcff_approx, last_fcf, net_debt, equity_value, shares,
                 value_per_share>>

\* intrinsic_value_per_share: net_debt and equity_value
EquityValue ==
  /\ UNCHANGED ret
  /\ pc = "net_debt"
  /\ net_debt' = NetDebt(financials.info)
  /\ equity_value' = FSub(ev, net_debt')
  /\ pc' = "select_shares"
  /\ UNCHANGED <<agentVars, kwargs, now_year, first, entry, financials, years, args, fcf_row, fcff, fcff_series,
                 path, fcff_approx, last_fcf, ev, shares, value_per_share, result>>

\* the share count step returning what is known so far instead of raising
ShareCountReturnsPartial ==
  /\ pc = "select_shares"
  /\ shares' = SelectShares(financials.info)
  /\ IF ~Truthy(shares')
     THEN /\ ret' = [symbol |-> kwargs.symbol, last_fcf |-> last_fcf,
                     enterprise_value |-> ev, equity_value |-> equity_value]
          /\ result' = Returned
          /\ pc' = "done"
     ELSE /\ pc' = "per_share"
          /\ UNCHANGED <<result, ret>>
  /\ UNCHANGED <<agentVars, kwargs, now_year, first, entry, financials, years, args, fcf_row, fcff, fcff_series,
                 path, fcff_approx, last_fcf, ev, net_debt, equity_value,
                 value_per_share>>

\* intrinsic_value_per_share: the share count
ShareCount ==
  /\ UNCHANGED ret
  /\ pc = "select_shares"
  /\ shares' = SelectShares(financials.info)
  /\ IF ~Truthy(shares')
     THEN /\ result' = Raised("ValueError", "No share count available")
          /\ pc' = "done"
     ELSE /\ pc' = "per_share"
          /\ UNCHANGED result
  /\ UNCHANGED <<agentVars, kwargs, now_year, first, entry, financials, years, args, fcf_row, fcff, fcff_series,
                 path, fcff_approx, last_fcf, ev, net_debt, equity_value,
                 value_per_share>>

\* intrinsic_value_per_share: value_per_share and the returned dict
ValuePerShare ==
  /\ pc = "per_share"
  /\ value_per_share' = FDiv(equity_value, InfoFloat(shares))
  /\ ret' = ResultDict(kwargs.symbol, last_fcf, ev, equity_value, value_per_share')
  /\ result' = Returned
  /\ pc' = "done"
  /\ UNCHANGED <<agentVars, kwargs, now_year, first, entry, financials, years, args, fcf_row, fcff, fcff_series,
                 path, fcff_approx, last_fcf, ev, net_debt, equity_value, shares>>

Next ==
  \/ PassAssumptions
  \/ LookupFcfRow
  \/ DirectLookup
  \/ DerivedFallback
  \/ TakeLastFcf
  \/ DcfIntrinsicValue
  \/ EquityValue
  \/ ShareCount
  \/ ValuePerShare

Spec == Init /\ [][Next]_vars

\* the binding of the assumptions alone, over every choice of keyword arguments
NextBind == PassAssumptions
SpecBind == InitBind /\ [][NextBind]_vars

\* estimate_fcf_series called twice on one bundle
NextTwice ==
  \/ LookupFcfRow
  \/ DirectLookup
  \/ DerivedFallback
  \/ CallAgain
\* the bundles of the repeated call: no free-cash-flow row, or one row under
\* a label the search lists or under one it does not list
InitTwice ==
  /\ InitEstimate
  /\ \A i \in 1..Len(financials.cashflow.index) :
       financials.cashflow.index[i] \in FcfLabels
       => /\ i = 1
          /\ financials.cashflow.index[i] \in {"Free Cash Flow", "free_cash_flow"}
  /\ \A i \in 2..Len(financials.cashflow.index) :
       financials.cashflow.index[i] \notin FcfLabels
SpecTwice == InitTwice /\ [][NextTwice]_vars

TypeOK ==
  /\ pc \in {"call", "lookup", "direct", "fallback", "check_series", "dcf", "net_debt",
             "select_shares", "per_share", "done"}
  /\ result.status \in {"running", "returned", "raised"}
  /\ path \in {"none", "direct", "fallback"}

(***************************************************************************)
(* Vocabulary of the properties.                                           *)
(***************************************************************************)
Cf == financials.cashflow
Labels(table) == {table.index[i] : i \in 1..Len(table.index)}

\* estimate_fcf_series has been called and has ended, by return or by raise
EstimateEnded ==
  entry # "dcf_intrinsic_value" /\ pc \notin {"call", "lookup", "direct", "fallback"}
EstimateRaised ==
  /\ result.status = "raised"
  /\ result.msg \in {"could not convert string to float", "Error estimating FCFF"}
EstimateReturned == EstimateEnded /\ ~EstimateRaised

\* dcf_intrinsic_value has returned a value
DcfReturned == ev # Unset

HasKind(row, kind) == \E j \in 1..Len(row) : row[j].kind = kind

\* every element of the series is the number the row holds for its period
FromRow(series, table, label) ==
  \A i \in 1..Len(series) :
    \E j \in 1..Len(table.columns) :
      /\ table.columns[j] = series[i].period
      /\ table.data[label][j].kind = "num"
      /\ series[i].value = FInt(table.data[label][j].v)

Ascending(series) ==
  \A i \in 1..(Len(series) - 1) : series[i].period < series[i + 1].period

\* label matching as the specification words it: letter case, blanks and
\* underscores do not count
UpperCase == <<"A", "B", "C", "D", "E", "F", "G", "H", "I", "J", "K", "L", "M",
               "N", "O", "P", "Q", "R", "S", "T", "U", "V", "W", "X", "Y", "Z">>
LowerCase == <<"a", "b", "c", "d", "e", "f", "g", "h", "i", "j", "k", "l", "m",
               "n", "o", "p", "q", "r", "s", "t", "u", "v", "w", "x", "y", "z">>
ToLower(c) ==
  IF \E i \in 1..Len(UpperCase) : UpperCase[i] = c
  THEN LowerCase[CHOOSE i \in 1..Len(UpperCase) : UpperCase[i] = c]
  ELSE c
IsLetterOrDigit(c) == c \notin {" ", "_"}
Normalized(label) ==
  SelectSeq([i \in 1..Len(Chars(label)) |-> ToLower(Chars(label)[i])], IsLetterOrDigit)
MatchesFreeCashFlow(label) == Normalized(label) = Normalized("free cash flow")

\* the label the three-name search settles on, written out
PreferredFcfLabel ==
  IF "Free Cash Flow" \in Labels(Cf) THEN "Free Cash Flow"
  ELSE IF "Free cash flow" \in Labels(Cf) THEN "Free cash flow"
  ELSE IF "FreeCashFlow" \in Labels(Cf) THEN "FreeCashFlow"
  ELSE "None"

C2_FallbackReturnsOneElement ==
  (EstimateEnded /\ PreferredFcfLabel = "None")
  => /\ EstimateReturned
     /\ Len(fcff_series) = 1
     /\ fcff_series[1].value = fcff_approx
     /\ ("Ebit" \in Labels(financials.income)
         /\ "Depreciation of PPE" \in Labels(Cf)
         /\ "Capital Expenditures" \in Labels(Cf))
        => fcff_series[1].value = FInt(480)

(***************************************************************************)
(* C3, C4, C5  Assumptions the valuation is not defined for.               *)
(***************************************************************************)
FLess(a, b) == a.n * b.d < b.n * a.d

\* C3 as claimed: with wacc equal to terminal_growth the enterprise-value
\* computation never returns a value.
C3_EqualRatesGiveNoValue ==
  (args.wacc = args.terminal_growth) => ~DcfReturned

\* C4 as claimed: with wacc below terminal_growth the enterprise-value
\* computation returns no value.
C4_LowWaccGivesNoValue ==
  FLess(args.wacc, args.terminal_growth) => ~DcfReturned

\* C5 as claimed: a call with growth_years < 1 ends in an error that reports
\* invalid assumptions (a ValueError, the error this module raises), and
\* returns no value.
C5_NoGrowthYearsIsInvalidAssumptions ==
  (entry = "dcf_intrinsic_value" /\ pc = "done" /\ args.growth_years < 1)
  => /\ ~DcfReturned
     /\ result.status = "raised"
     /\ result.exc = "ValueError"

(***************************************************************************)
(* C6  The series the direct lookup returns.                               *)
(***************************************************************************)
FoundRow == Cf.data[fcf_row]
SeriesPeriods == {fcff_series[i].period : i \in 1..Len(fcff_series)}
Present(j) == FoundRow[j].kind # "nan"

\* columns among the `years` most recent whose value is not missing
PresentAmongRecent == {j \in 1..NumPeriods : j <= years /\ Present(j)}
\* columns of the first `years` values that are not missing
FirstPresent ==
  {j \in 1..NumPeriods :
     Present(j) /\ Cardinality({i \in 1..j : Present(i)}) <= years}

IsSeriesOf(cols) ==
  /\ Ascending(fcff_series)
  /\ SeriesPeriods = {Columns[j] : j \in cols}
  /\ Len(fcff_series) = Cardinality(cols)
  /\ FromRow(fcff_series, Cf, fcf_row)

\* C6 as claimed: a series returned by the direct lookup is the non-missing
\* values among the `years` most recent periods of the row (restrict, then
\* drop), ascending, at most `years` long, with no value of an older period.
C6_RestrictThenDrop ==
  (EstimateReturned /\ path = "direct")
  => /\ IsSeriesOf(PresentAmongRecent)
     /\ Len(fcff_series) <= years
     /\ \A p \in SeriesPeriods : \E j \in 1..NumPeriods : j <= years /\ Columns[j] = p

\* C6 amended: a series returned by the direct lookup is the first `years`
\* non-missing values of the row, most recent first (drop the missing
\* entries, then restrict), in ascending order of period; it has at most
\* `years` elements, and holds a value older than the `years` most recent
\* periods when a more recent period is missing.
C6_DropThenRestrict ==
  (EstimateReturned /\ path = "direct")
  => /\ IsSeriesOf(FirstPresent)
     /\ Len(fcff_series) <= years

\* C6 witness: a returned series cut to `years` elements that reaches past
\* the `years` most recent periods because a more recent one is missing
C6_Witness ==
  /\ EstimateReturned
  /\ path = "direct"
  /\ years >= 2
  /\ Len(fcff_series) = years
  /\ \E j \in FirstPresent : j > years
  /\ \E j \in 1..NumPeriods : Present(j) /\ j \notin FirstPresent

(***************************************************************************)
(* C7  Placeholder strings in the free-cash-flow row.                      *)
(***************************************************************************)
\* C7 as claimed: a row that holds a placeholder string next to numbers
\* yields the series of its numbers; the placeholder neither becomes 0 nor
\* makes the extraction fail.
C7_PlaceholdersAreDropped ==
  (/\ EstimateEnded
   /\ years >= 1
   /\ PreferredFcfLabel # "None"
   /\ HasKind(Cf.data[PreferredFcfLabel], "str")
   /\ HasKind(Cf.data[PreferredFcfLabel], "num"))
  => /\ EstimateReturned
     /\ path = "direct"
     /\ fcff_series # <<>>
     /\ FromRow(fcff_series, Cf, PreferredFcfLabel)

(***************************************************************************)
(* C8  The derived estimate with every input defaulted.                    *)
(***************************************************************************)
AllDefaulted ==
  /\ "Ebit" \notin Labels(financials.income)
  /\ \A l \in Labels(Cf) : ~StrContains(l, "Depreciation")
  /\ \A l \in Labels(Cf) : ~(StrContains(l, "Capital") /\ StrContains(l, "Expend"))

\* C8 as claimed: when the derived estimate is reached, it ends in an error
\* if EBIT, depreciation and capital expenditure are all absent, and returns
\* a series if at least one of them is present.
C8_FailsExactlyWhenAllDefaulted ==
  (EstimateEnded /\ path = "fallback")
  => /\ AllDefaulted => EstimateRaised
     /\ ~AllDefaulted => (EstimateReturned /\ Len(fcff_series) = 1)

(***************************************************************************)
(* C9  Share-count selection.                                              *)
(***************************************************************************)
Info == financials.info
Usable(x) == x.kind = "num" /\ x.v # 0

\* intrinsic_value_per_share has passed its share-count step
ShareStepDone ==
  /\ entry = "intrinsic_value_per_share"
  /\ equity_value # Unset
  /\ pc \in {"per_share", "done"}

\* C9: past the share-count step, the divisor is sharesOutstanding when that
\* is a nonzero number, else floatShares when that is a nonzero number; when
\* neither is, the call has ended in "No share count available" and nothing
\* was divided.  value_per_share is never computed with a zero divisor.
C9_ShareCountSelection ==
  /\ ShareStepDone =>
       /\ Usable(Info["sharesOutstanding"]) => shares = Info["sharesOutstanding"]
       /\ (~Usable(Info["sharesOutstanding"]) /\ Usable(Info["floatShares"]))
            => shares = Info["floatShares"]
       /\ (~Usable(Info["sharesOutstanding"]) /\ ~Usable(Info["floatShares"]))
            => /\ pc = "done"
               /\ result = Raised("ValueError", "No share count available")
               /\ value_per_share = Unset
       /\ (Usable(Info["sharesOutstanding"]) \/ Usable(Info["floatShares"]))
            => (pc = "done" => /\ result = Returned
                               /\ FMul(value_per_share, FInt(shares.v)) = equity_value)
  /\ value_per_share # Unset => (shares.kind = "num" /\ shares.v # 0)

\* C9 witness: a returned valuation divided by floatShares because
\* sharesOutstanding is 0
C9_Witness ==
  /\ ShareStepDone
  /\ pc = "done"
  /\ result = Returned
  /\ Info["sharesOutstanding"] = Num(0)
  /\ shares = Num(50)
  /\ IsFinite(equity_value)
  /\ value_per_share = FDiv(equity_value, FInt(50))

(***************************************************************************)
(* C10  Missing debt or cash.                                              *)
(***************************************************************************)
NumberOrZero(x) == IF x.kind = "num" THEN x.v ELSE 0

\* C10: once the enterprise value is known, net_debt is totalDebt minus
\* totalCash with an absent or None item counted as 0, and the call fails
\* only for want of a share count, whatever is missing of debt and cash.
C10_MissingDebtOrCashIsZero ==
  (entry = "intrinsic_value_per_share" /\ net_debt # Unset)
  => /\ net_debt = FInt(NumberOrZero(Info["totalDebt"]) - NumberOrZero(Info["totalCash"]))
     /\ equity_value = FSub(ev, net_debt)
     /\ result.status = "raised" => result.msg = "No share count available"
     /\ (pc = "done" /\ (Usable(Info["sharesOutstanding"]) \/ Usable(Info["floatShares"])))
          => result = Returned

\* C10 witness: a returned valuation whose info map has no totalDebt and a
\* None totalCash
C10_Witness ==
  /\ entry = "intrinsic_value_per_share"
  /\ pc = "done"
  /\ result = Returned
  /\ Info["totalDebt"] = Absent
  /\ Info["totalCash"] = None
  /\ net_debt = FInt(0)
  /\ IsFinite(value_per_share)

(***************************************************************************)
(* The enterprise value in closed form, over integers.  With the rates     *)
(* g = a/D, w = b/D, tg = c/D (D = RateDen) and A = D+a, B = D+b, C = D+c, *)
(* X = b-c:                                                                *)
(*   sum_{i=1..N} f*(1+g)^i/(1+w)^i + [f*(1+g)^N*(1+tg)/(w-tg)]/(1+w)^N    *)
(*     = f * (X * sum_{i=1..N} A^i * B^(N-i) + A^N * C) / (X * B^N)        *)
(***************************************************************************)
RECURSIVE IPow(_, _)
IPow(b, n) == IF n <= 0 THEN 1 ELSE b * IPow(b, n - 1)

RECURSIVE GeometricSum(_, _, _, _)
GeometricSum(A, B, N, i) ==
  IF i > N THEN 0 ELSE IPow(A, i) * IPow(B, N - i) + GeometricSum(A, B, N, i + 1)

\* the numerator of a rate over RateDen
Scaled(rate) == rate.n * (RateDen \div rate.d)

ClosedFormEv(f, a) ==
  LET A == RateDen + Scaled(a.growth_rate)
      B == RateDen + Scaled(a.wacc)
      C == RateDen + Scaled(a.terminal_growth)
      X == Scaled(a.wacc) - Scaled(a.terminal_growth)
      N == a.growth_years
  IN  Fin(f.n * (X * GeometricSum(A, B, N, 1) + IPow(A, N) * C),
          f.d * X * IPow(B, N))

Greater(a, b) == FSign(FSub(a, b)) > 0

(***************************************************************************)
(* C11  Per-share derivation.                                              *)
(***************************************************************************)
Divisor ==
  IF Usable(Info["sharesOutstanding"]) THEN Info["sharesOutstanding"].v
  ELSE Info["floatShares"].v

\* C11: the dict a successful call of intrinsic_value_per_share returns has
\* equity_value = enterprise_value - (totalDebt - totalCash) and
\* value_per_share = equity_value / shares, with enterprise_value the DCF
\* value of its last_fcf; for totalDebt=2000, totalCash=500,
\* sharesOutstanding=100 net debt is 1500 and value_per_share is
\* (enterprise_value - 1500)/100.
C11_PerShareDerivation ==
  (entry = "intrinsic_value_per_share" /\ result = Returned)
  => /\ ret.equity_value =
          FSub(ret.enterprise_value,
               FInt(NumberOrZero(Info["totalDebt"]) - NumberOrZero(Info["totalCash"])))
     /\ ret.value_per_share = FDiv(ret.equity_value, FInt(Divisor))
     /\ args.wacc # args.terminal_growth
          => ret.enterprise_value = ClosedFormEv(ret.last_fcf, args)
     /\ Info = ExampleInfo
          => /\ net_debt = FInt(1500)
             /\ ret.value_per_share =
                  FDiv(FSub(ret.enterprise_value, FInt(1500)), FInt(100))

\* C11 witness: a returned valuation of the example info map with a finite
\* value per share
C11_Witness ==
  /\ entry = "intrinsic_value_per_share"
  /\ result = Returned
  /\ Info = ExampleInfo
  /\ ret.last_fcf = FInt(1000)
  /\ Greater(args.wacc, args.terminal_growth)
  /\ IsFinite(ret.value_per_share)
  /\ ret.equity_value = FSub(ClosedFormEv(FInt(1000), args), FInt(1500))

(***************************************************************************)
(* C12  The base value is the most recent period.                          *)
(***************************************************************************)
\* intrinsic_value_per_share has taken last_fcf from the series
BaseValueTaken == entry = "intrinsic_value_per_share" /\ last_fcf # Unset

\* the period of column j is the latest of the series
LatestKept(j) ==
  /\ Columns[j] \in SeriesPeriods
  /\ \A p \in SeriesPeriods : p <= Columns[j]

\* C12: the last_fcf that intrinsic_value_per_share feeds into the DCF is the
\* value of the most recent reporting period kept by the extractor, the last
\* element of the ascending series: the most recent non-missing value of the
\* row; for the row [1000, 900, 800, 700] it is 1000.
C12_BaseValueIsMostRecent ==
  BaseValueTaken
  => /\ \E j \in 1..NumPeriods :
          /\ LatestKept(j)
          /\ \A i \in 1..(j - 1) : FoundRow[i].kind = "nan"
          /\ FoundRow[j].kind = "num"
          /\ last_fcf = FInt(FoundRow[j].v)
     /\ Ascending(fcff_series)
     /\ last_fcf = fcff_series[Len(fcff_series)].value
     /\ FoundRow = FullRow => last_fcf = FInt(1000)

\* C12 witness: the row [1000, 900, 800, 700] gives the base value 1000; the
\* series has several periods, so first and last element differ
C12_Witness ==
  /\ BaseValueTaken
  /\ FoundRow = FullRow
  /\ Len(fcff_series) = NumPeriods
  /\ fcff_series[1].value = FInt(700)
  /\ last_fcf = FInt(1000)

(***************************************************************************)
(* C13  The enterprise value formula.                                      *)
(***************************************************************************)
\* C13: for growth_years N >= 1 and wacc > terminal_growth,
\* dcf_intrinsic_value returns exactly
\*   sum_{i=1..N} last_fcf*(1+g)^i/(1+w)^i
\*     + [last_fcf*(1+g)^N*(1+tg)/(w-tg)]/(1+w)^N:
\* the terminal value is built on the year-N cash flow and discounted over N
\* years.
C13_EnterpriseValueFormula ==
  (DcfReturned /\ args.growth_years >= 1 /\ Greater(args.wacc, args.terminal_growth))
  => ev = ClosedFormEv(last_fcf, args)

\* C13 witness: two growth years at 25% growth, 50% wacc and 25% terminal
\* growth on a base of 480: 480*(5/6 + 25/36) + 480*(25/16)*(5/4)/(1/4)/(9/4)
C13_Witness ==
  /\ DcfReturned
  /\ last_fcf = FInt(480)
  /\ args = Assumptions(MaxGrowthYears, Fin(1, RateDen), Fin(1, RateDen), Fin(MaxRate, RateDen))
  /\ ev = ClosedFormEv(last_fcf, args)
  /\ Greater(ev, FInt(0))

(***************************************************************************)
(* C14, C15  Monotonicity of the enterprise value.                         *)
(***************************************************************************)
Below(a, b) == FSign(FSub(a, b)) < 0

\* dcf_intrinsic_value has returned for assumptions with N >= 1, w > tg and
\* a positive base value
ValuedPositiveBase ==
  /\ DcfReturned
  /\ args.growth_years >= 1
  /\ Greater(args.wacc, args.terminal_growth)
  /\ Greater(last_fcf, FInt(0))

SmallerBases == {f \in BaseValues : Greater(f, FInt(0)) /\ Below(f, last_fcf)}
SmallerGrowthRates == {g \in GrowthRates : Below(g, args.growth_rate)}
WithGrowthRate(g) == [args EXCEPT !.growth_rate = g]

\* C14 as claimed: for all assumptions with wacc > terminal_growth and
\* growth_years >= 1 and all base values 0 < f1 < f2, the enterprise value of
\* f1 is strictly less than that of f2.
C14_IncreasingInLastFcf ==
  ValuedPositiveBase
  => \A f1 \in SmallerBases : Below(EnterpriseValue(f1, args), ev)

\* C14 amended: the same, for growth_rate > -1 and wacc > -1 (positive
\* growth and discount factors).
C14_IncreasingInLastFcfPositiveFactors ==
  (ValuedPositiveBase /\ Greater(args.growth_rate, FInt(-1))
                      /\ Greater(args.wacc, FInt(-1)))
  => \A f1 \in SmallerBases : Below(EnterpriseValue(f1, args), ev)

\* C14 witness: a shrinking cash flow (growth rate negative, above -1) valued
\* for the base 1000, worth more than the base 480
C14_Witness ==
  /\ ValuedPositiveBase
  /\ last_fcf = FInt(1000)
  /\ args.growth_rate = Fin(-1, RateDen)
  /\ args.growth_years = MaxGrowthYears
  /\ FInt(480) \in SmallerBases
  /\ Below(EnterpriseValue(FInt(480), args), ev)
  /\ Greater(ev, FInt(0))

\* C15 as claimed: for all assumptions with wacc > terminal_growth and
\* growth_years >= 1, a fixed last_fcf > 0 and all growth rates g1 < g2, the
\* enterprise value with g1 is less than that with g2.
C15_IncreasingInGrowthRate ==
  ValuedPositiveBase
  => \A g1 \in SmallerGrowthRates :
       Below(EnterpriseValue(last_fcf, WithGrowthRate(g1)), ev)

\* C15 amended: the same, for growth rates -1 <= g1 < g2 and wacc > -1.
C15_IncreasingInGrowthRateFromMinusOne ==
  (ValuedPositiveBase /\ Greater(args.wacc, FInt(-1)))
  => \A g1 \in SmallerGrowthRates :
       ~Below(g1, FInt(-1))
       => Below(EnterpriseValue(last_fcf, WithGrowthRate(g1)), ev)

\* C15 witness: a value at 25% growth, above the values at every smaller
\* growth rate down to -100%, where the value is zero
C15_Witness ==
  /\ ValuedPositiveBase
  /\ args.growth_rate = Fin(1, RateDen)
  /\ args.growth_years = MaxGrowthYears
  /\ {FInt(-1), Fin(-1, RateDen), Fin(0, RateDen)} \subseteq SmallerGrowthRates
  /\ EnterpriseValue(last_fcf, WithGrowthRate(FInt(-1))) = FInt(0)
  /\ Below(EnterpriseValue(last_fcf, WithGrowthRate(Fin(0, RateDen))), ev)

(***************************************************************************)
(* C16  Two calls on one bundle.                                           *)
(***************************************************************************)
\* the second call of estimate_fcf_series on the bundle has ended
SecondCallEnded == first # NoOutcome /\ pc = "done"

\* C16: two calls of estimate_fcf_series on the identical bundle give the
\* identical outcome (same periods and values, or the same error), whatever
\* the calendar year is at either call.
C16_SameOutcomeTwice ==
  SecondCallEnded
  => /\ result = first.result
     /\ fcff_series = first.series

\* C16 witness: the year changes between two calls that both take the derived
\* estimate, the only code that reads the clock
C16_Witness ==
  /\ SecondCallEnded
  /\ now_year # FirstYear
  /\ path = "fallback"
  /\ result = first.result

\* a second witness: two calls that both return the same series of several
\* periods from the free-cash-flow row
C16_WitnessDirect ==
  /\ SecondCallEnded
  /\ now_year # FirstYear
  /\ result = Returned
  /\ Len(first.series) > 1
  /\ fcff_series = first.series

(***************************************************************************)
(* C17  All-or-nothing result.                                             *)
(***************************************************************************)
ResultFields == {"symbol", "last_fcf", "enterprise_value", "equity_value",
                 "value_per_share"}

\* every field of the dict holds a value
Populated(dict) ==
  /\ dict.symbol = kwargs.symbol
  /\ \A f \in ResultFields \ {"symbol"} : dict[f].k \notin {"unset", "omitted"}

PerShareEnded == entry = "intrinsic_value_per_share" /\ pc = "done"

\* C17: a call of intrinsic_value_per_share either returns a dict in which
\* symbol, last_fcf, enterprise_value, equity_value and value_per_share are
\* all present, or raises and returns no dict; no dict with only some of the
\* fields exists at any step.
C17_AllOrNothing ==
  /\ DOMAIN ret = {} \/ (DOMAIN ret = ResultFields /\ Populated(ret))
  /\ PerShareEnded
     => \/ result = Returned /\ DOMAIN ret = ResultFields
        \/ result.status = "raised" /\ DOMAIN ret = {}
  /\ entry = "intrinsic_value_per_share" /\ pc # "done" => DOMAIN ret = {}

\* C17 witness, the returning case: all five fields present
C17_Witness ==
  /\ PerShareEnded
  /\ result = Returned
  /\ DOMAIN ret = ResultFields
  /\ Populated(ret)
  /\ IsFinite(ret.value_per_share)

\* the raising case: the enterprise and equity values were computed, the
\* share count is missing, and no dict is returned
C17_WitnessRaised ==
  /\ PerShareEnded
  /\ result = Raised("ValueError", "No share count available")
  /\ equity_value # Unset
  /\ DOMAIN ret = {}

(***************************************************************************)
(* C18  Overriding the assumptions at the entry point.                     *)
(***************************************************************************)
\* the call of intrinsic_value_per_share has bound its arguments, or failed to
ArgumentsBound == entry = "intrinsic_value_per_share" /\ pc # "call"

\* the rate the DCF must use: the one given, else the documented default
GivenOr(given, percent) == IF given = Omitted THEN Fin(percent, 100) ELSE given

RatesAsGiven ==
  /\ args.growth_rate = GivenOr(kwargs.growth_rate, 8)
  /\ args.terminal_growth = GivenOr(kwargs.terminal_growth, 3)
  /\ args.wacc = GivenOr(kwargs.wacc, 11)

C18_WitnessGrowthYears ==
  /\ ArgumentsBound
  /\ kwargs.growth_years = Num(1)
  /\ result.status = "raised"

(***************************************************************************)
(* C19  A returned series is never empty.                                  *)
(***************************************************************************)
\* the derived estimate was entered
FallbackTaken == path = "fallback"

\* the free-cash-flow row was found and holds no number
RowWithoutUsableValue == fcf_row # "None" /\ ~HasKind(FoundRow, "num")

\* C19: every series estimate_fcf_series returns has at least one element;
\* when the free-cash-flow row exists but has no usable value the direct path
\* returns nothing and the derived estimate is taken instead; and
\* intrinsic_value_per_share never values an empty series.
C19_ReturnedSeriesNeverEmpty ==
  /\ EstimateReturned => fcff_series # <<>>
  /\ (EstimateEnded /\ RowWithoutUsableValue) => (path # "direct" /\ FallbackTaken)
  /\ last_fcf # Unset => (entry = "dcf_intrinsic_value" \/ fcff_series # <<>>)

\* the parts of C19 the code keeps: no empty series is returned or valued,
\* and a row of missing values only leads to the derived estimate
C19_NoEmptySeries ==
  /\ EstimateReturned => fcff_series # <<>>
  /\ (EstimateEnded /\ fcf_row # "None" /\ \A j \in 1..NumPeriods : ~Present(j))
     => (path # "direct" /\ FallbackTaken)
  /\ last_fcf # Unset => (entry = "dcf_intrinsic_value" \/ fcff_series # <<>>)

(***************************************************************************)
(* C21  No interaction between two requests.                               *)
(***************************************************************************)
\* intrinsic_value_per_share on one bundle, run alone in calendar year `year`
RunAlone(fin, kw, year) ==
  LET est == EstimateOutcome(fin, DefaultYears, year)
      a == DcfArguments(kw)
      last == est.series[Len(est.series)].value
      value == EnterpriseValue(last, a)
      equity == FSub(value, NetDebt(fin.info))
      count == SelectShares(fin.info)
  IN  IF est.result # Returned THEN [result |-> est.result, ret |-> NoResult]
      ELSE IF est.series = <<>>
      THEN [result |-> Raised("ValueError", "No FCFF data computed"), ret |-> NoResult]
      ELSE IF ~Truthy(count)
      THEN [result |-> Raised("ValueError", "No share count available"),
            ret |-> NoResult]
      ELSE [result |-> Returned,
            ret |-> ResultDict(kw.symbol, last, value, equity,
                               FDiv(equity, InfoFloat(count)))]

RequestEnded(r) == req[r].pc = "done"

\* C21: for any interleaving of two valuation requests, each request's
\* result (the dict it returns, or the error it raises) is the result of
\* running that request alone.
C21_NoCrossRequestInteraction ==
  entry = "two_requests"
  => \A r \in Requests :
       RequestEnded(r)
       => \A year \in {FirstYear, FirstYear + 1} :
            /\ req[r].result = RunAlone(req[r].financials, req[r].kwargs, year).result
            /\ req[r].ret = RunAlone(req[r].financials, req[r].kwargs, year).ret

\* C21 witness: two requests on different bundles have both returned, with
\* different values, while the calendar year changed
C21_Witness ==
  /\ entry = "two_requests"
  /\ RequestEnded(1) /\ RequestEnded(2)
  /\ req[1].financials # req[2].financials
  /\ req[1].result = Returned /\ req[2].result = Returned
  /\ req[1].ret.last_fcf # req[2].ret.last_fcf
  /\ req[1].ret.value_per_share # req[2].ret.value_per_share
  /\ now_year # FirstYear

(***************************************************************************)
(* C22  update_state_with_data and its input.                              *)
(***************************************************************************)
\* the content of a dict, its messages list read through
Content(dict, heap) ==
  [key \in DOMAIN dict |-> IF key = "messages" THEN heap[dict[key]] ELSE dict[key]]

\* C22: after update_state_with_data(state, payload) returns, the state
\* passed in, including its messages list, has the content it had before the
\* call, for every state, with or without a messages list.
C22_InputStateUnchanged ==
  [][(entry = "update_state_with_data" /\ result' = Returned)
       => Content(state', lists') = Content(state, lists)]_vars

\* what the code keeps of C22: a state without a messages list is left as it
\* was, and the returned state holds the summary and the four entries
C22_InputWithoutListUnchanged ==
  [][(entry = "update_state_with_data" /\ result' = Returned)
       => /\ "messages" \notin DOMAIN state => Content(state', lists') = Content(state, lists)
          /\ {"symbol", "fundamental_data", "technical_data", "price_data", "messages"}
               \subseteq DOMAIN next_state'
          /\ LET ms == Content(next_state', lists')["messages"]
             IN  ms[Len(ms)] = Summary(payload)]_vars

(***************************************************************************)
(* C23  run and the failures of its optional parts.                        *)
(***************************************************************************)
RunEnded == entry = "run" /\ pc = "done"

\* the failures the claim names: HTTP error status, provider error payload,
\* value error
NamedFailures == {"http_error", "error_payload", "invalid_json", "ragged"}
Answered == {"ok", "no_data"}

FundamentalsFetched ==
  /\ fetched.dates_valid
  /\ fetched.api_key
  /\ fetched.fundamentals.kind \in Answered \cup {"ragged"}

\* the table a part of the bundle must hold
ExpectedPart(resp, part) ==
  IF resp.kind = "ok" THEN Frame(part, resp.rows) ELSE EmptyFrame

\* C23: when the fundamentals fetch succeeds, a failure of the technicals
\* fetch or of the price fetch (HTTP error status, provider error payload,
\* value error) does not fail run: it returns a bundle with an empty table
\* for the failed part and the fetched tables for the others.  A failure of
\* the fundamentals fetch is propagated and no bundle is returned.
C23_OptionalPartsTolerated ==
  RunEnded
  => /\ (/\ FundamentalsFetched
         /\ fetched.technicals.kind \in Answered \cup NamedFailures
         /\ fetched.prices.kind \in Answered \cup NamedFailures)
        => /\ result = Returned
           /\ bundle # NoBundle
           /\ bundle.technicals = ExpectedPart(fetched.technicals, "indicator")
           /\ bundle.prices = ExpectedPart(fetched.prices, "candles")
           /\ bundle.fundamentals =
                ExpectedPart(fetched.fundamentals, "flattened filings")
     /\ (fetched.dates_valid /\ ~FundamentalsFetched)
        => /\ result.status = "raised"
           /\ bundle = NoBundle
           /\ calls = <<"fetch_fundamental_data">>

\* C23 witness: the technicals fetch fails with a provider error payload,
\* the price fetch returns rows, and run returns
C23_Witness ==
  /\ RunEnded
  /\ FundamentalsFetched
  /\ fetched.fundamentals.kind = "ok"
  /\ fetched.technicals.kind = "error_payload"
  /\ fetched.prices = Response("ok", MaxRows)
  /\ result = Returned
  /\ bundle.technicals = EmptyFrame
  /\ bundle.prices = Frame("candles", MaxRows)

\* the other case: the fundamentals fetch fails
C23_WitnessPropagated ==
  /\ RunEnded
  /\ fetched.fundamentals.kind = "http_error"
  /\ result = Raised("HTTPError", "fundamentals")
  /\ bundle = NoBundle

(***************************************************************************)
(* C24  store_payload with no connection information.                      *)
(***************************************************************************)
StoreEnded == entry = "store_payload" /\ pc = "done"

\* a setting is configured when the argument, the tool or the environment
\* gives it a value
Configured(name) ==
  \/ ~Falsy(mongo_config.arg[name])
  \/ ~Falsy(mongo_config.ctor[name])
  \/ ~Falsy(mongo_config.env[name])

NoConnectionInformation ==
  /\ ~Configured("uri")
  /\ ~(Configured("username") /\ Configured("password"))

\* C24: when no MongoDB URI and no username/password pair is configured
\* (argument, tool, environment), store_payload ends with the
\* EnvironmentError "MongoDB storage requested but no URI provided" before
\* any connection to MongoDB is attempted.
C24_NoConnectionInformationRaises ==
  (StoreEnded /\ NoConnectionInformation)
  => /\ result = Raised("EnvironmentError",
                        "MongoDB storage requested but no URI provided")
     /\ calls = <<>>

\* what the code does in that case: it connects to the host-only address,
\* localhost:27017 when no host is configured either
C24_HostOnlyConnection ==
  (StoreEnded /\ NoConnectionInformation)
  => /\ uri.kind = "host"
     /\ Configured("host") \/ uri.host = "localhost"
     /\ calls = <<"MongoClient">>
     /\ result.status # "raised" \/ result.exc = "RuntimeError"

(***************************************************************************)
(* C25  merge in fetch_and_save.                                           *)
(***************************************************************************)
FetchCalled == entry = "fetch_and_save" /\ calls.n > 0

\* the downloaded records whose time is the time of no record of `existing`
NotYetHeld(existing, new_data) ==
  LET held(r) == \E i \in DOMAIN existing : existing[i].Datetime = r.Datetime
      absent(r) == ~held(r)
  IN  SelectSeq(new_data, absent)

NoTwoOfOneTime(records) ==
  \A i \in DOMAIN records, j \in DOMAIN records :
    i # j => records[i].Datetime # records[j].Datetime

C25_WitnessEmptyDownload ==
  /\ FetchCalled
  /\ download = <<>>
  /\ out.records # <<>>
  /\ file = out
  /\ calls.writes < calls.n

(***************************************************************************)
(* C26  the graph node call_model.                                         *)
(***************************************************************************)
CallModelEnded == entry = "call_model" /\ pc = "done"

FetchAndSentimentSucceed ==
  /\ SymbolOf(state) # ""
  /\ ToolsFetchFundamentals(fetched.fundamentals).raised = NoException
  /\ fetched.sentiment = "ok"

\* C26: for every state with a non-empty symbol for which the fundamentals
\* fetch and the sentiment analysis succeed, call_model calculates ratios,
\* builds the graph data and returns a result with the keys fundamentals,
\* ratios, sentiments, visualization_url and symbol and no error key; for an
\* empty or missing symbol it returns the error "No symbol provided" without
\* calling any fetch; in no case does an exception escape call_model.
C26_AnalysisReturned ==
  CallModelEnded
  => /\ FetchAndSentimentSucceed
        => /\ out.keys = ResultKeys
           /\ "error" \notin out.keys
           /\ \E i \in DOMAIN calls : calls[i] = "build_financial_graph"
     /\ SymbolOf(state) = ""
        => /\ out.error = "No symbol provided"
           /\ calls = <<>>
     /\ result = Returned

\* the parts of C26 that hold of the code: the answer to a missing symbol,
\* and no exception escapes
C26_NoSymbolAndNoEscape ==
  CallModelEnded
  => /\ SymbolOf(state) = ""
        => /\ out.keys = {"error", "symbol"}
           /\ out.error = "No symbol provided"
           /\ calls = <<>>
     /\ result = Returned

\* what the code does with a symbol: the call of calculate_ratios does not
\* bind, and every result carries the error key
C26_AlwaysAnError ==
  CallModelEnded
  => /\ "error" \in out.keys
     /\ (FetchAndSentimentSucceed
         => out.error = "TypeError" /\ calls = <<"fetch_fundamentals">>)

(***************************************************************************)
(* C27  the chat loop of run_chatbot.                                      *)
(***************************************************************************)
\* a pass of the loop has ended and the next prompt is shown
PassEnded == entry = "run_chatbot" /\ pc = "prompt" /\ calls.turns > 0
ChatEnded == entry = "run_chatbot" /\ pc = "ended"

\* the messages the last pass appended
AppendedInPass ==
  SubSeq(state.messages, Len(out.messages) + 1, Len(state.messages))

RepliesIn(messages) == {i \in DOMAIN messages : messages[i] \in BotReplies}

InputAppended ==
  /\ Len(state.messages) > Len(out.messages)
  /\ SubSeq(state.messages, 1, Len(out.messages)) = out.messages
  /\ AppendedInPass[1] = user_input

ExitLeavesStateAlone ==
  ChatEnded => /\ Lower(user_input) = "exit"
               /\ state.messages = out.messages
               /\ calls.gemini = out.gemini

\* C27 as stated: every user input other than "exit" (any letter case) is
\* appended to state["messages"] and, before the next prompt, gemini_chat_tool
\* is called exactly once and appends exactly one bot reply, also for inputs
\* that start with "fundamental:" (empty symbol, failed fetch, empty result);
\* "exit" ends the loop without appending and without calling
\* gemini_chat_tool.
C27_EveryInputAnswered ==
  /\ PassEnded
     => /\ InputAppended
        /\ calls.gemini = out.gemini + 1
        /\ Cardinality(RepliesIn(AppendedInPass)) = 1
        /\ AppendedInPass[Len(AppendedInPass)] \in BotReplies
  /\ ExitLeavesStateAlone

\* the pass was abandoned by one of the `continue` statements
PassAbandoned ==
  /\ user_input \in {"fundamental:", "fundamental:  ", "fundamental:AAPL"}
  /\ user_input # "fundamental:AAPL" \/ fetched.fundamentals # "rows"

\* C27 amended: every user input other than "exit" is appended to
\* state["messages"].  For an input that starts with "fundamental:" and has
\* an empty symbol, a failed fetch or an empty result, nothing else is
\* appended and gemini_chat_tool is not called.  For every other input
\* gemini_chat_tool is called exactly once before the next prompt and
\* appends exactly one bot reply as the last message, unless the request to
\* Gemini raises, in which case no reply is appended.  "exit" ends the loop
\* without appending and without calling gemini_chat_tool.
C27_InputAnsweredUnlessAbandoned ==
  /\ PassEnded
     => /\ InputAppended
        /\ PassAbandoned
           => /\ AppendedInPass = <<user_input>>
              /\ calls.gemini = out.gemini
        /\ ~PassAbandoned
           => /\ calls.gemini = out.gemini + 1
              /\ IF fetched.gemini = "raises"
                 THEN RepliesIn(AppendedInPass) = {}
                 ELSE /\ Cardinality(RepliesIn(AppendedInPass)) = 1
                      /\ AppendedInPass[Len(AppendedInPass)] \in BotReplies
  /\ ExitLeavesStateAlone

\* C27 witness: a second pass on "fundamental:" with no symbol after an
\* answered first pass: the line is appended and the chat tool is not called
C27_Witness ==
  /\ PassEnded
  /\ calls.turns = MaxTurns
  /\ out.gemini = 1
  /\ user_input = "fundamental:"
  /\ AppendedInPass = <<"fundamental:">>
  /\ calls.gemini = 1

\* the analysis that is not abandoned: line, summary and reply
C27_WitnessAnalysis ==
  /\ PassEnded
  /\ user_input = "fundamental:AAPL"
  /\ AppendedInPass = <<"fundamental:AAPL",
                        "Fundamental analysis completed with limited data.", "reply">>

\* "exit" in capitals after a pass
C27_WitnessExit ==
  /\ ChatEnded
  /\ user_input = "EXIT"
  /\ state.messages # <<>>

====
